---- MODULE Spec2Model ----
(***************************************************************************)
(* Authentication / authorization core of the practicing-go backend:       *)
(* permission matching (utils.HasPermission, User.Can), the JWT token      *)
(* codec (GenerateToken / ValidateToken) and the request pipeline          *)
(* (AuthMiddleware, Authorize).                                            *)
(***************************************************************************)
EXTENDS Integers, Sequences, FiniteSets, TLC

(***************************************************************************)
(* Bounds                                                                  *)
(***************************************************************************)
\* longest permission string of the permission-matching specification
MaxPermLen == 3
\* longest permission string inside a policy map of that specification
MaxPolicyPermLen == 2
\* clock ticks in one second (the clock is finer than a token's timestamps)
TicksPerSecond == 2
\* single clock ticks taken in one behaviour
MaxTicks == 4
\* long waits (one second short of the token lifetime) in one behaviour
MaxJumps == 1
\* tokens the clients hold at a time
MaxTokens == 1
\* password hashes made in one behaviour of the account specification
MaxHashes == 1
\* calls of SetPassword in one behaviour of the credential specification
MaxSetPasswordCalls == 3
\* requests in flight at a time in the concurrent-requests specification
MaxRequests == 2
\* service calls other requests make while a request is authorized
MaxAdminCalls == 2
\* service calls made in one behaviour of the user-store and role-store
\* specifications
MaxEdits == 2
\* rows of the orders table
MaxOrders == 1
\* the largest amount of money of an order
MaxMoney == 2
\* rows of the inventory table
MaxItems == 1
\* the largest stock of an item, and the largest debt of stock
MaxStock == 2
\* calls of TxManager.Run in one behaviour of the transaction specification
MaxRuns == 2
\* statements the function handed to Run executes in the transaction
MaxStatements == 2

(***************************************************************************)
(* Program constants                                                       *)
(***************************************************************************)
\* tokenTTL = 24 * time.Hour, in seconds
tokenTTL == 86400

\* jwtSecret, the process-wide signing key (the development default)
jwtSecret == "super-secret-dev-key"

\* RegisteredClaims.Issuer set by GenerateToken
Issuer == "inventory-system"

(***************************************************************************)
(* Strings are sequences of one-character strings.                         *)
(***************************************************************************)
Chars == {"a", ":", "*"}

Str(n) == UNION {[1..k -> Chars] : k \in 0..n}

\* strings.HasPrefix
HasPrefix(s, prefix) ==
    /\ Len(s) >= Len(prefix)
    /\ SubSeq(s, 1, Len(prefix)) = prefix

\* strings.HasSuffix
HasSuffix(s, suffix) ==
    /\ Len(s) >= Len(suffix)
    /\ SubSeq(s, Len(s) - Len(suffix) + 1, Len(s)) = suffix

\* strings.TrimSuffix
TrimSuffix(s, suffix) ==
    IF HasSuffix(s, suffix) THEN SubSeq(s, 1, Len(s) - Len(suffix)) ELSE s

\* a mutant of the wildcard match: the resource prefix is matched without
\* the colon that ends the resource segment
WildcardNoColon(p, requiredPerm) ==
    /\ HasSuffix(p, <<":", "*">>)
    /\ HasPrefix(requiredPerm, TrimSuffix(p, <<":", "*">>))

\* the wildcard branch of HasPermission's loop body
WildcardMatch(p, requiredPerm) ==
    /\ HasSuffix(p, <<":", "*">>)
    /\ HasPrefix(requiredPerm, TrimSuffix(p, <<":", "*">>) \o <<":">>)

RECURSIVE HasPermissionFrom(_, _, _)
\* the loop of HasPermission from index i on
HasPermissionFrom(userPerms, requiredPerm, i) ==
    IF i > Len(userPerms) THEN FALSE
    ELSE IF userPerms[i] = requiredPerm THEN TRUE
    ELSE IF WildcardMatch(userPerms[i], requiredPerm) THEN TRUE
    ELSE HasPermissionFrom(userPerms, requiredPerm, i + 1)

\* utils.HasPermission
HasPermission(userPerms, requiredPerm) ==
    HasPermissionFrom(userPerms, requiredPerm, 1)

\* a policy map without roles
NoPolicy == [x \in {} |-> <<>>]

\* a mutant of User.Can: a role missing from the policy is not denied
\* outright but checked against every role's permissions
CanAnyRole(role, requiredPerm, policy) ==
    \E r \in DOMAIN policy : HasPermission(policy[r], requiredPerm)

\* User.Can; a policy is a function from the role slugs it has to their
\* permission lists
Can(role, requiredPerm, policy) ==
    IF role \notin DOMAIN policy THEN FALSE
    ELSE HasPermission(policy[role], requiredPerm)

(***************************************************************************)
(* Token codec.  Times are clock ticks; a token's timestamps are whole     *)
(* seconds.  A token string is its three segments: the header, the claims  *)
(* payload and the signature.  An HMAC is the term of what it was computed *)
(* from, so two signatures agree exactly when algorithm, key and signing   *)
(* input agree.                                                            *)
(***************************************************************************)
\* time.Time.Truncate(jwt.TimePrecision), as jwt.NewNumericDate does
NewNumericDate(t) == t - (t % TicksPerSecond)

\* a mutant of the JSON encoding of Claims: the role field is not encoded
MarshalClaimsNoRole(c) ==
    [user_id |-> c.UserID, role |-> "", exp |-> c.ExpiresAt \div TicksPerSecond,
     iat |-> c.IssuedAt \div TicksPerSecond, iss |-> c.Issuer]

\* JSON encoding of Claims (the struct tags user_id, role and the registered
\* exp, iat, iss; numeric dates are written in seconds)
MarshalClaims(c) ==
    [user_id |-> c.UserID, role |-> c.Role, exp |-> c.ExpiresAt \div TicksPerSecond,
     iat |-> c.IssuedAt \div TicksPerSecond, iss |-> c.Issuer]

\* JSON decoding into &Claims{}
UnmarshalClaims(p) ==
    [UserID |-> p.user_id, Role |-> p.role, ExpiresAt |-> p.exp * TicksPerSecond,
     IssuedAt |-> p.iat * TicksPerSecond, Issuer |-> p.iss]

\* the nil *Claims returned with an error
NoClaims == [UserID |-> 0, Role |-> "", ExpiresAt |-> 0, IssuedAt |-> 0, Issuer |-> ""]

\* SigningMethod.Sign: the MAC of header and payload under key
Sign(alg, key, header, payload) ==
    [alg |-> alg, key |-> key, header |-> header, payload |-> payload]

\* Token.SignedString
SignedString(alg, claims, key) ==
    LET header == [alg |-> alg, typ |-> "JWT"]
        payload == MarshalClaims(claims)
    IN  [header |-> header, payload |-> payload,
         sig |-> Sign(alg, key, header, payload)]

\* GenerateToken(u); expiresNow and issuedNow are its two readings of
\* time.Now(), in the order the struct literal takes them
GenerateToken(u, expiresNow, issuedNow) ==
    LET claims == [UserID |-> u.Id, Role |-> u.Role,
                   ExpiresAt |-> NewNumericDate(expiresNow + tokenTTL * TicksPerSecond),
                   IssuedAt |-> NewNumericDate(issuedNow),
                   Issuer |-> Issuer]
    IN  SignedString("HS256", claims, jwtSecret)

\* the signing methods the jwt package has registered (those of the model)
RegisteredAlgs == {"HS256", "HS384", "HS512", "RS256", "none"}

\* the algorithms whose method is a *jwt.SigningMethodHMAC
HMACFamily == {"HS256", "HS384", "HS512"}

\* a mutant of the key function: the signing method is not looked at
KeyFuncAnyMethod(alg) == [err |-> "", key |-> jwtSecret]

\* the key function ValidateToken hands to ParseWithClaims
KeyFunc(alg) ==
    IF alg \notin HMACFamily
    THEN [err |-> "unexpected signing method", key |-> ""]
    ELSE [err |-> "", key |-> jwtSecret]

\* a mutant of signature verification: the MAC is not compared
MethodVerifyAnySignature(alg, header, payload, sig, key) == alg \in HMACFamily

\* token.Method.Verify with a []byte key: an HMAC method recomputes the MAC
\* and compares; every other method refuses a []byte key
MethodVerify(alg, header, payload, sig, key) ==
    /\ alg \in HMACFamily
    /\ sig = Sign(alg, key, header, payload)

\* a mutant of the expiry check: the expiry instant itself still counts
VerifyExpiresAtInclusive(claims, t) == t <= claims.ExpiresAt

\* Validator.verifyExpiresAt: now.Before(exp)
VerifyExpiresAt(claims, t) == t < claims.ExpiresAt

\* ValidateToken(tokenString) called at time t.  tokenString.text is the
\* text handed in; the text "$T" stands for the three-segment token string
\* tokenString.jwt, and any other text has no three segments.
ValidateToken(tokenString, t) ==
    LET tok == tokenString.jwt
        claims == UnmarshalClaims(tok.payload)
        k == KeyFunc(tok.header.alg)
    IN  IF tokenString.text # <<"$T">>
        THEN [err |-> "token is malformed", claims |-> NoClaims]
        ELSE IF tok.header.alg \notin RegisteredAlgs
        THEN [err |-> "signing method (alg) is unavailable", claims |-> NoClaims]
        ELSE IF k.err # ""
        THEN [err |-> k.err, claims |-> NoClaims]
        ELSE IF ~MethodVerify(tok.header.alg, tok.header, tok.payload, tok.sig, k.key)
        THEN [err |-> "signature is invalid", claims |-> NoClaims]
        ELSE IF ~VerifyExpiresAt(claims, t)
        THEN [err |-> "token is expired", claims |-> NoClaims]
        ELSE [err |-> "", claims |-> claims]

(***************************************************************************)
(* Stores.  The user store maps the ids of the stored users to their       *)
(* records; the role store is the rows of the roles table in the order     *)
(* roleRepository.List returns them (by name).                             *)
(***************************************************************************)
PermOrderCreate == <<"o", "r", "d", "e", "r", ":", "c", "r", "e", "a", "t", "e">>
PermOrderRead == <<"o", "r", "d", "e", "r", ":", "r", "e", "a", "d">>
PermOrderDelete == <<"o", "r", "d", "e", "r", ":", "d", "e", "l", "e", "t", "e">>
OrderAdmin == <<"o", "r", "d", "e", "r", ":", "*">>

\* passwords, as sequences of characters
Secret1 == <<"s", "e", "c", "r", "e", "t", "1">>
Hunter22 == <<"h", "u", "n", "t", "e", "r", "2", "2">>

\* the version prefix of a well-formed bcrypt hash string
BcryptPrefix == "$2a$"

\* a mutant of bcrypt: the salt is drawn but the digest is computed under a
\* fixed salt and the hash string stores that one
BcryptFixedSalt(salt, rawPassword) ==
    [prefix |-> BcryptPrefix, salt |-> 0, digest |-> <<0, rawPassword>>]

\* the bcrypt hash string of a password under a salt: the prefix, the salt
\* and the digest, which is the term of salt and password
Bcrypt(salt, rawPassword) ==
    [prefix |-> BcryptPrefix, salt |-> salt, digest |-> <<salt, rawPassword>>]

\* the empty hash string of a zero User
NoHash == [prefix |-> "", salt |-> 0, digest |-> <<0, <<>>>>]

\* bcrypt.GenerateFromPassword(password, bcrypt.DefaultCost) drawing salt
GenerateFromPassword(salt, password) ==
    IF Len(password) > 72
    THEN [err |-> "bcrypt: password length exceeds 72 bytes", bytes |-> NoHash]
    ELSE [err |-> "", bytes |-> Bcrypt(salt, password)]

\* bcrypt.CompareHashAndPassword = nil: the stored string parses as a bcrypt
\* hash and re-hashing the password under its salt gives the same string
CompareHashAndPassword(hash, password) ==
    /\ hash.prefix = BcryptPrefix
    /\ hash = Bcrypt(hash.salt, password)

\* User.SetPassword, with the salt bcrypt draws
SetPassword(u, rawPassword, salt) ==
    LET g == GenerateFromPassword(salt, rawPassword)
    IN  IF g.err # "" THEN [err |-> g.err, u |-> u]
        ELSE [err |-> "", u |-> [u EXCEPT !.Hash = g.bytes]]

\* User.CheckPassword
CheckPassword(u, rawPassword) == CompareHashAndPassword(u.Hash, rawPassword)

NoUser == [Id |-> 0, Username |-> "", Hash |-> NoHash, Role |-> "", Active |-> FALSE]

InitUsers ==
    (1 :> [Id |-> 1, Username |-> "alice", Hash |-> Bcrypt(1, Secret1),
           Role |-> "clerk", Active |-> TRUE])
    @@ (2 :> [Id |-> 2, Username |-> "bob", Hash |-> Bcrypt(2, Hunter22),
              Role |-> "manager", Active |-> TRUE])

InitRoles ==
    << [Id |-> 1, Slug |-> "clerk", Name |-> "Clerk",
        Permissions |-> <<PermOrderCreate, PermOrderRead>>],
       [Id |-> 2, Slug |-> "manager", Name |-> "Manager",
        Permissions |-> <<OrderAdmin>>] >>

\* userRepository.GetByID; dbOk is whether the query itself succeeds
GetByID(store, id, dbOk) ==
    IF ~dbOk THEN [err |-> "failed to get user", u |-> NoUser]
    ELSE IF id \notin DOMAIN store THEN [err |-> "user not found", u |-> NoUser]
    ELSE [err |-> "", u |-> store[id]]

\* userRepository.GetByUsername
GetByUsername(store, username, dbOk) ==
    IF ~dbOk THEN [err |-> "failed to get user", u |-> NoUser]
    ELSE IF \A id \in DOMAIN store : store[id].Username # username
    THEN [err |-> "user not found", u |-> NoUser]
    ELSE [err |-> "", u |-> store[CHOOSE id \in DOMAIN store : store[id].Username = username]]

\* userService.GetUser with an int argument
GetUser(store, id, dbOk) == GetByID(store, id, dbOk)

\* a mutant of roleRepository.List: the rows read when the server started
\* are returned again
ListStale(rows, dbOk) ==
    IF ~dbOk THEN [err |-> "failed to list roles", roles |-> <<>>]
    ELSE [err |-> "", roles |-> InitRoles]

\* roleRepository.List
List(rows, dbOk) ==
    IF ~dbOk THEN [err |-> "failed to list roles", roles |-> <<>>]
    ELSE [err |-> "", roles |-> rows]

RECURSIVE PolicyFromByName(_, _, _)
\* a mutant of the loop of GetPolicyMap: the map is keyed by the role's
\* name instead of its slug
PolicyFromByName(rows, i, policy) ==
    IF i > Len(rows) THEN policy
    ELSE PolicyFromByName(rows, i + 1,
                          [s \in DOMAIN policy \cup {rows[i].Name} |->
                              IF s = rows[i].Name THEN rows[i].Permissions ELSE policy[s]])

RECURSIVE PolicyFrom(_, _, _)
\* the loop of GetPolicyMap from row i on
PolicyFrom(rows, i, policy) ==
    IF i > Len(rows) THEN policy
    ELSE PolicyFrom(rows, i + 1,
                    [s \in DOMAIN policy \cup {rows[i].Slug} |->
                        IF s = rows[i].Slug THEN rows[i].Permissions ELSE policy[s]])

\* a mutant of GetPolicyMap: a failed read is swallowed and answered with an
\* empty policy
GetPolicyMapSwallow(listed) ==
    IF listed.err # "" THEN [err |-> "", isNil |-> FALSE, policy |-> NoPolicy]
    ELSE [err |-> "", isNil |-> FALSE, policy |-> PolicyFrom(listed.roles, 1, NoPolicy)]

\* roleService.GetPolicyMap; listed is what s.repo.List returned
GetPolicyMap(listed) ==
    IF listed.err # "" THEN [err |-> listed.err, isNil |-> TRUE, policy |-> NoPolicy]
    ELSE [err |-> "", isNil |-> FALSE, policy |-> PolicyFrom(listed.roles, 1, NoPolicy)]

\* the empty token string Login returns with an error
NoToken ==
    [header |-> [alg |-> "", typ |-> ""], payload |-> MarshalClaims(NoClaims),
     sig |-> Sign("", "", [alg |-> "", typ |-> ""], MarshalClaims(NoClaims))]

\* a mutant of Login: the active flag is not checked
LoginNoActiveCheck(store, username, password, dbOk, expiresNow, issuedNow) ==
    LET found == GetByUsername(store, username, dbOk)
    IN  IF found.err # ""
        THEN [err |-> "invalid credentials", token |-> NoToken, u |-> NoUser]
        ELSE IF ~CheckPassword(found.u, password)
        THEN [err |-> "invalid credentials", token |-> NoToken, u |-> NoUser]
        ELSE [err |-> "", token |-> GenerateToken(found.u, expiresNow, issuedNow),
              u |-> found.u]

\* userService.Login; expiresNow and issuedNow are GenerateToken's clock
\* readings
Login(store, username, password, dbOk, expiresNow, issuedNow) ==
    LET found == GetByUsername(store, username, dbOk)
    IN  IF found.err # ""
        THEN [err |-> "invalid credentials", token |-> NoToken, u |-> NoUser]
        ELSE IF ~found.u.Active
        THEN [err |-> "user account is inactive", token |-> NoToken, u |-> NoUser]
        ELSE IF ~CheckPassword(found.u, password)
        THEN [err |-> "invalid credentials", token |-> NoToken, u |-> NoUser]
        ELSE [err |-> "", token |-> GenerateToken(found.u, expiresNow, issuedNow),
              u |-> found.u]

(***************************************************************************)
(* Account management: the user service over the user repository, and the  *)
(* user handler's mapping of errors to status codes.  seq is the last      *)
(* value of the sequence behind users.id.                                  *)
(***************************************************************************)
ErrUserNotFound == "user not found"
ErrInvalidUserInput == "invalid user input"
ErrDuplicateUsername == "username already exists"
ErrInvalidCredentials == "invalid credentials"
ErrPasswordTooShort == "password must be at least 6 characters"

\* isDuplicateKeyError
isDuplicateKeyError(err) == FALSE

\* userRepository.Create; a unique violation on username takes a value of
\* the sequence with it
Create(store, seq, user, dbOk) ==
    IF user.Username = "" \/ user.Hash = NoHash
    THEN [err |-> ErrInvalidUserInput, store |-> store, seq |-> seq, u |-> user]
    ELSE IF ~dbOk
    THEN [err |-> "failed to create user", store |-> store, seq |-> seq, u |-> user]
    ELSE IF \E id \in DOMAIN store : store[id].Username = user.Username
    THEN [err |-> IF isDuplicateKeyError("unique_violation") THEN ErrDuplicateUsername
                  ELSE "failed to create user",
          store |-> store, seq |-> seq + 1, u |-> user]
    ELSE LET created == [user EXCEPT !.Id = seq + 1]
         IN  [err |-> "", store |-> store @@ ((seq + 1) :> created),
              seq |-> seq + 1, u |-> created]

\* userRepository.UpdatePassword
UpdatePassword(store, id, hash, dbOk) ==
    IF ~dbOk THEN [err |-> "failed to update password", store |-> store]
    ELSE IF id \notin DOMAIN store THEN [err |-> ErrUserNotFound, store |-> store]
    ELSE [err |-> "", store |-> [store EXCEPT ![id].Hash = hash]]

\* userRepository.SetActive
SetActive(store, id, active, dbOk) ==
    IF ~dbOk THEN [err |-> "failed to set active status", store |-> store]
    ELSE IF id \notin DOMAIN store THEN [err |-> ErrUserNotFound, store |-> store]
    ELSE [err |-> "", store |-> [store EXCEPT ![id].Active = active]]

\* a mutant of RegisterUser: the length check is missing
RegisterUserUnchecked(store, seq, input, salt, dbOk) ==
    LET role == IF input.Role = "" THEN "staff" ELSE input.Role
        newUser == [Id |-> 0, Username |-> input.Username, Hash |-> NoHash,
                    Role |-> role, Active |-> TRUE]
        set == SetPassword(newUser, input.Password, salt)
        made == Create(store, seq, set.u, dbOk)
    IN  IF input.Username = "" \/ input.Password = <<>>
        THEN [err |-> ErrInvalidUserInput, store |-> store, seq |-> seq,
              u |-> NoUser, hashed |-> FALSE]
        ELSE IF set.err # ""
        THEN [err |-> set.err, store |-> store, seq |-> seq, u |-> NoUser,
              hashed |-> FALSE]
        ELSE IF made.err # ""
        THEN [err |-> made.err, store |-> made.store, seq |-> made.seq,
              u |-> NoUser, hashed |-> TRUE]
        ELSE [err |-> "", store |-> made.store, seq |-> made.seq, u |-> made.u,
              hashed |-> TRUE]

\* userService.RegisterUser; hashed is whether SetPassword produced a hash
RegisterUser(store, seq, input, salt, dbOk) ==
    LET role == IF input.Role = "" THEN "staff" ELSE input.Role
        newUser == [Id |-> 0, Username |-> input.Username, Hash |-> NoHash,
                    Role |-> role, Active |-> TRUE]
        set == SetPassword(newUser, input.Password, salt)
        made == Create(store, seq, set.u, dbOk)
    IN  IF input.Username = "" \/ input.Password = <<>>
        THEN [err |-> ErrInvalidUserInput, store |-> store, seq |-> seq,
              u |-> NoUser, hashed |-> FALSE]
        ELSE IF Len(input.Password) < 6
        THEN [err |-> ErrPasswordTooShort, store |-> store, seq |-> seq,
              u |-> NoUser, hashed |-> FALSE]
        ELSE IF set.err # ""
        THEN [err |-> set.err, store |-> store, seq |-> seq, u |-> NoUser,
              hashed |-> FALSE]
        ELSE IF made.err # ""
        THEN [err |-> made.err, store |-> made.store, seq |-> made.seq,
              u |-> NoUser, hashed |-> TRUE]
        ELSE [err |-> "", store |-> made.store, seq |-> made.seq, u |-> made.u,
              hashed |-> TRUE]

\* userService.ChangePassword
ChangePassword(store, id, newPassword, salt, dbOk) ==
    LET set == SetPassword(NoUser, newPassword, salt)
        put == UpdatePassword(store, id, set.u.Hash, dbOk)
    IN  IF Len(newPassword) < 6
        THEN [err |-> ErrPasswordTooShort, store |-> store, hashed |-> FALSE]
        ELSE IF set.err # ""
        THEN [err |-> set.err, store |-> store, hashed |-> FALSE]
        ELSE [err |-> put.err, store |-> put.store, hashed |-> TRUE]

\* userService.ToggleActive
ToggleActive(store, id, active, dbOk) == SetActive(store, id, active, dbOk)

\* userRepository.Update: one UPDATE statement that writes every column of
\* the row, hash and active included; a second row with the username is a
\* unique violation
Update(store, user, dbOk) ==
    IF user.Id = 0 THEN [err |-> ErrInvalidUserInput, store |-> store]
    ELSE IF ~dbOk THEN [err |-> "failed to update user", store |-> store]
    ELSE IF \E id \in DOMAIN store \ {user.Id} : store[id].Username = user.Username
    THEN [err |-> IF isDuplicateKeyError("unique_violation") THEN ErrDuplicateUsername
                  ELSE "failed to update user",
          store |-> store]
    ELSE IF user.Id \notin DOMAIN store THEN [err |-> ErrUserNotFound, store |-> store]
    ELSE [err |-> "", store |-> [store EXCEPT ![user.Id] = user]]

\* userService.UpdateUser after its read: the fields of the input that are
\* not empty replace those of the row it read
UpdateFields(existing, input) ==
    [existing EXCEPT !.Username = IF input.Username # "" THEN input.Username ELSE @,
                     !.Role = IF input.Role # "" THEN input.Role ELSE @]

\* the zero Role
NoRole == [Id |-> 0, Slug |-> "", Name |-> "", Permissions |-> <<>>]

\* roleRepository.GetByID; the row of a role is at the index of its id
RoleGetByID(rows, id, dbOk) ==
    IF ~dbOk THEN [err |-> "failed to get role", role |-> NoRole]
    ELSE IF id \notin 1..Len(rows) THEN [err |-> "role not found", role |-> NoRole]
    ELSE [err |-> "", role |-> rows[id]]

\* roleRepository.Update: one UPDATE statement that writes slug, name and
\* the whole permission list
RoleUpdate(rows, role, dbOk) ==
    IF role.Id = 0 THEN [err |-> "invalid role input", rows |-> rows]
    ELSE IF ~dbOk THEN [err |-> "failed to update role", rows |-> rows]
    ELSE IF role.Id \notin 1..Len(rows) THEN [err |-> "role not found", rows |-> rows]
    ELSE [err |-> "", rows |-> [rows EXCEPT ![role.Id] = role]]

\* slices.Contains
Contains(list, x) == \E i \in 1..Len(list) : list[i] = x

\* roleService.AddPermission after its read: the list to write; write is
\* whether repo.Update is called
AddedPermission(role, permission) ==
    IF ~Contains(role.Permissions, permission)
    THEN [write |-> TRUE,
          role |-> [role EXCEPT !.Permissions = Append(@, permission)]]
    ELSE [write |-> FALSE, role |-> role]

\* roleService.RemovePermission after its read
RemovedPermission(role, permission) ==
    LET newPerms == SelectSeq(role.Permissions, LAMBDA q : q # permission)
    IN  IF Len(newPerms) # Len(role.Permissions)
        THEN [write |-> TRUE, role |-> [role EXCEPT !.Permissions = newPerms]]
        ELSE [write |-> FALSE, role |-> role]

\* UserHandler.respondWithError: the status code written for err
respondWithError(err) ==
    IF err = ErrUserNotFound THEN 404
    ELSE IF err = ErrInvalidUserInput THEN 400
    ELSE IF err = ErrDuplicateUsername THEN 409
    ELSE 500

(***************************************************************************)
(* Request pipeline.  The text of an Authorization header is a sequence of *)
(* words and single spaces; the word "$T" stands for the token string the  *)
(* header carries.                                                         *)
(***************************************************************************)
RECURSIVE Split(_)
\* strings.Split(s, " ")
Split(s) ==
    IF \A i \in 1..Len(s) : s[i] # " " THEN <<s>>
    ELSE LET i == CHOOSE i \in 1..Len(s) : s[i] = " " /\ \A j \in 1..(i - 1) : s[j] # " "
         IN  <<SubSeq(s, 1, i - 1)>> \o Split(SubSeq(s, i + 1, Len(s)))

\* a request context without values
NoCtx == [k \in {} |-> 0]

\* a mutant of AuthMiddleware: a token that failed validation is logged but
\* the request is passed on with the claims of the unverified payload
AuthMiddlewareLenient(header, t) ==
    LET parts == Split(header.text)
    IN  IF header.text = <<>>
        THEN [code |-> 401, msg |-> <<"Authorization header required">>,
              next |-> FALSE, ctx |-> NoCtx, validated |-> FALSE]
        ELSE IF Len(parts) # 2 \/ parts[1] # <<"Bearer">>
        THEN [code |-> 401, msg |-> <<"Invalid authorization format">>,
              next |-> FALSE, ctx |-> NoCtx, validated |-> FALSE]
        ELSE LET c == UnmarshalClaims(header.jwt.payload)
             IN  [code |-> 0, msg |-> <<>>, next |-> TRUE,
                  ctx |-> ("userID" :> c.UserID) @@ ("userRole" :> c.Role),
                  validated |-> TRUE]

\* a mutant of AuthMiddleware: the last field of a non-empty header is
\* validated first and the shape of the header is looked at afterwards
AuthMiddlewareValidateFirst(header, t) ==
    LET parts == Split(header.text)
        v == ValidateToken([text |-> parts[Len(parts)], jwt |-> header.jwt], t)
    IN  IF header.text = <<>>
        THEN [code |-> 401, msg |-> <<"Authorization header required">>,
              next |-> FALSE, ctx |-> NoCtx, validated |-> FALSE]
        ELSE IF v.err # ""
        THEN [code |-> 401, msg |-> <<"Invalid or expired token">>,
              next |-> FALSE, ctx |-> NoCtx, validated |-> TRUE]
        ELSE IF Len(parts) # 2 \/ parts[1] # <<"Bearer">>
        THEN [code |-> 401, msg |-> <<"Invalid authorization format">>,
              next |-> FALSE, ctx |-> NoCtx, validated |-> TRUE]
        ELSE [code |-> 0, msg |-> <<>>, next |-> TRUE,
              ctx |-> ("userID" :> v.claims.UserID) @@ ("userRole" :> v.claims.Role),
              validated |-> TRUE]

\* AuthMiddleware on a request with this Authorization header, at time t:
\* the response it writes, or the context it hands to the next handler
AuthMiddleware(header, t) ==
    LET parts == Split(header.text)
    IN  IF header.text = <<>>
        THEN [code |-> 401, msg |-> <<"Authorization header required">>,
              next |-> FALSE, ctx |-> NoCtx, validated |-> FALSE]
        ELSE IF Len(parts) # 2 \/ parts[1] # <<"Bearer">>
        THEN [code |-> 401, msg |-> <<"Invalid authorization format">>,
              next |-> FALSE, ctx |-> NoCtx, validated |-> FALSE]
        ELSE LET v == ValidateToken([text |-> parts[2], jwt |-> header.jwt], t)
             IN  IF v.err # ""
                 THEN [code |-> 401, msg |-> <<"Invalid or expired token">>,
                       next |-> FALSE, ctx |-> NoCtx, validated |-> TRUE]
                 ELSE [code |-> 0, msg |-> <<>>, next |-> TRUE,
                       ctx |-> ("userID" :> v.claims.UserID) @@ ("userRole" :> v.claims.Role),
                       validated |-> TRUE]

\* a mutant of Authorize's first steps: a failed user lookup does not end
\* the request
AuthorizeUserNoReturn(ctx, store, dbOk) ==
    IF "userID" \notin DOMAIN ctx
    THEN [code |-> 0, msg |-> <<>>, calls |-> <<"GetUser">>, u |-> NoUser]
    ELSE LET got == GetUser(store, ctx["userID"], dbOk)
         IN  [code |-> 0, msg |-> <<>>, calls |-> <<"GetUser">>, u |-> got.u]

\* a mutant of Authorize's first steps: the role of the token's claims
\* replaces the role of the stored user
AuthorizeUserTokenRole(ctx, store, dbOk) ==
    IF "userID" \notin DOMAIN ctx
    THEN [code |-> 401, msg |-> <<"User context missing">>, calls |-> <<>>, u |-> NoUser]
    ELSE LET got == GetUser(store, ctx["userID"], dbOk)
         IN  IF got.err # ""
             THEN [code |-> 401, msg |-> <<"User not found">>,
                   calls |-> <<"GetUser">>, u |-> NoUser]
             ELSE [code |-> 0, msg |-> <<>>, calls |-> <<"GetUser">>,
                   u |-> [got.u EXCEPT !.Role = ctx["userRole"]]]

\* Authorize, steps 1 and 2: the user id of the context, then the stored
\* user; code 0 means the steps passed
AuthorizeUser(ctx, store, dbOk) ==
    IF "userID" \notin DOMAIN ctx
    THEN [code |-> 401, msg |-> <<"User context missing">>, calls |-> <<>>, u |-> NoUser]
    ELSE LET got == GetUser(store, ctx["userID"], dbOk)
         IN  IF got.err # ""
             THEN [code |-> 401, msg |-> <<"User not found">>,
                   calls |-> <<"GetUser">>, u |-> NoUser]
             ELSE [code |-> 0, msg |-> <<>>, calls |-> <<"GetUser">>, u |-> got.u]

\* a mutant of Authorize's last steps: the answer of Can is taken the wrong
\* way round
AuthorizePolicyInverted(u, requiredPerm, listed) ==
    LET got == GetPolicyMap(listed)
    IN  IF got.err # ""
        THEN [code |-> 500, msg |-> <<"Failed to load permissions">>, next |-> FALSE]
        ELSE IF Can(u.Role, requiredPerm, got.policy)
        THEN [code |-> 403, msg |-> <<"Access Denied: Missing ", requiredPerm>>,
              next |-> FALSE]
        ELSE [code |-> 0, msg |-> <<>>, next |-> TRUE]

\* a mutant of Authorize's last steps: a user whose record is not active is
\* answered 403
AuthorizePolicyActiveOnly(u, requiredPerm, listed) ==
    LET got == GetPolicyMap(listed)
    IN  IF got.err # ""
        THEN [code |-> 500, msg |-> <<"Failed to load permissions">>, next |-> FALSE]
        ELSE IF ~u.Active \/ ~Can(u.Role, requiredPerm, got.policy)
        THEN [code |-> 403, msg |-> <<"Access Denied: Missing ", requiredPerm>>,
              next |-> FALSE]
        ELSE [code |-> 0, msg |-> <<>>, next |-> TRUE]

\* Authorize, steps 3 and 4: the policy map, then the decision; listed is
\* what the role repository returned
AuthorizePolicy(u, requiredPerm, listed) ==
    LET got == GetPolicyMap(listed)
    IN  IF got.err # ""
        THEN [code |-> 500, msg |-> <<"Failed to load permissions">>, next |-> FALSE]
        ELSE IF ~Can(u.Role, requiredPerm, got.policy)
        THEN [code |-> 403, msg |-> <<"Access Denied: Missing ", requiredPerm>>,
              next |-> FALSE]
        ELSE [code |-> 0, msg |-> <<>>, next |-> TRUE]

(***************************************************************************)
(* State                                                                   *)
(***************************************************************************)
VARIABLES
    now,        \* the clock, in ticks
    users,      \* the user store
    roles,      \* the role store
    wallet,     \* the tokens Login has issued, each with the user it was issued for
    req,        \* the request in flight, its position in the pipeline and its response
    permIn,     \* permission-matching specification: the call and its arguments
    permOut,    \* ... and its result, <<>> until the call has returned
    userSeq,    \* the last value of the sequence behind users.id
    salts,      \* the salts bcrypt has drawn so far (a salt is never drawn twice)
    reqs,       \* concurrent-requests specification: the requests in flight
    cred,       \* credential specification: the calls made and their results
    tx,         \* transaction specification: the run of TxManager.Run
    svc,        \* the service calls of other requests: begun, and returned or not
    orders,     \* the orders table
    inventory   \* the inventory table

vars ==
    <<now, users, roles, wallet, req, permIn, permOut, userSeq, salts, reqs, cred, tx,
      svc, orders, inventory>>

\* the variables of the account store beside users
storeVars == <<userSeq, salts>>

\* the variables of the specifications of single components
partVars == <<reqs, cred, tx, svc, orders, inventory>>

\* the variables of the service calls in flight and of the shop's tables
shopVars == <<svc, orders, inventory>>

NoHeader == [text |-> <<>>, jwt |-> NoToken]

\* a request without a body
NoBody == [Username |-> "", Password |-> <<>>, Role |-> "", Active |-> FALSE]

\* no other request has called a service
NoSvc == <<>>

\* the concurrent-requests specification has no request in flight
NoReqs == <<>>

\* the credential specification has made no call: the password the calls
\* are about, the calls of SetPassword, the last call of CheckPassword and
\* the call of the user service
NoCred == [pc |-> "none", pw |-> <<>>, made |-> <<>>, check |-> <<>>, call |-> <<>>]

\* TxManager.Run has not been called: where the run is, the runs so far,
\* whether BeginTx succeeded, the rows written in the transaction, the rows
\* the database holds, how the function ended, the named result err,
\* whether Commit failed and the calls the deferred function made
NoTx ==
    [pc |-> "none", runs |-> 0, began |-> FALSE, pending |-> <<>>, durable |-> {},
     outcome |-> "", err |-> "", commitFailed |-> FALSE, events |-> <<>>]

\* no request in flight
IdleReq ==
    [pc |-> "idle", route |-> "none", header |-> NoHeader, perm |-> <<>>,
     at |-> 0, validated |-> FALSE, ctx |-> NoCtx, u |-> NoUser, calls |-> <<>>,
     entered |-> FALSE, userFailed |-> FALSE,
     listFailed |-> FALSE, policyNil |-> FALSE, policy |-> NoPolicy,
     code |-> 0, msg |-> <<>>, handler |-> FALSE, handlerCtx |-> NoCtx,
     token |-> NoToken, id |-> 0, body |-> NoBody, hashed |-> FALSE,
     justified |-> FALSE]

\* the permissions the permission-gated routes of the model require
RequiredPerms == {PermOrderRead, PermOrderDelete}

\* a long wait: one second short of the token lifetime, in ticks
Jump == (tokenTTL - 1) * TicksPerSecond

\* single ticks taken so far
Ticks == now % Jump

(***************************************************************************)
(* What a client can send.  It holds the tokens of the wallet and can      *)
(* build any token string from them: a changed signature segment, another  *)
(* algorithm in the header (signed, for the HMAC ones, under the process   *)
(* secret to cover a holder of the secret), a changed payload.             *)
(***************************************************************************)
EmptySig == Sign("", "", [alg |-> "", typ |-> ""], MarshalClaims(NoClaims))

\* token b with the header algorithm alg, signed for that algorithm under key
Resigned(b, alg, key) ==
    LET header == [alg |-> alg, typ |-> "JWT"]
    IN  [header |-> header, payload |-> b.payload,
         sig |-> Sign(alg, key, header, b.payload)]

\* the token strings that differ from b in the signature segment only
TamperedSignatures(b) ==
    { [b EXCEPT !.sig = Sign(b.header.alg, "attacker-key", b.header, b.payload)],
      [b EXCEPT !.sig = Sign(b.header.alg, jwtSecret, b.header,
                             [b.payload EXCEPT !.role = "manager"])],
      [b EXCEPT !.sig = EmptySig] } \ {b}

TokenVariants(b) ==
    {b}
    \cup TamperedSignatures(b)
    \cup {Resigned(b, "HS384", jwtSecret), Resigned(b, "RS256", jwtSecret),
          Resigned(b, "XS256", jwtSecret)}
    \cup {[Resigned(b, "none", "") EXCEPT !.sig = EmptySig]}
    \cup {[b EXCEPT !.payload.role = "manager"],
          Resigned([b EXCEPT !.payload.role = "manager"], "HS256", "attacker-key")}

\* a token built without any issued token: claims for user 2 as manager,
\* expiring a token lifetime after t, signed under the attacker's own key
ForgedToken(t) ==
    SignedString("HS256",
                 [UserID |-> 2, Role |-> "manager",
                  ExpiresAt |-> NewNumericDate(t + tokenTTL * TicksPerSecond),
                  IssuedAt |-> NewNumericDate(t), Issuer |-> Issuer],
                 "attacker-key")

\* header texts that carry the token string
TokenTexts ==
    { <<"Basic", " ", "$T">>, <<"$T">>, <<"Bearer", " ", " ", "$T">>,
      <<"bearer", " ", "$T">>, <<"Bearer", " ", "$T", " ", "x">> }

\* header texts without a token string
BareTexts == { <<>>, <<"Bearer", " ">>, <<"Bearer", " ", "Basic">>, <<"Bearer">> }

Headers(t) ==
    LET held == {w.tok : w \in wallet}
    IN  {[text |-> <<"Bearer", " ", "$T">>, jwt |-> v] :
            v \in UNION {TokenVariants(b) : b \in held} \cup {ForgedToken(t)}}
        \cup {[text |-> x, jwt |-> b] : x \in TokenTexts, b \in held}
        \cup {[text |-> x, jwt |-> NoToken] : x \in BareTexts}

(***************************************************************************)
(* Actions.  One request is followed through the pipeline at a time; the   *)
(* handler chain is cut where it reads a store, so that writes to the      *)
(* stores by other requests fall between its reads.  The clock is read by  *)
(* AuthMiddleware and by Login only, each in one step, so it advances      *)
(* between requests.                                                       *)
(***************************************************************************)
Init ==
    /\ now = 0
    /\ users = InitUsers
    /\ roles = InitRoles
    /\ wallet = {}
    /\ req = IdleReq
    /\ permIn = [fn |-> "none"]
    /\ permOut = <<>>
    /\ userSeq = 2
    /\ salts = 2
    /\ svc = NoSvc
    /\ orders = <<>>
    /\ inventory = <<>>
    /\ reqs = NoReqs
    /\ cred = NoCred
    /\ tx = NoTx

\* the clock advances by a tick
Tick ==
    /\ req.pc = "idle"
    /\ Ticks < MaxTicks
    /\ now' = now + 1
    /\ UNCHANGED <<users, roles, wallet, req, permIn, permOut, storeVars, partVars>>

\* the clock advances by a long wait
Wait ==
    /\ req.pc = "idle"
    /\ now \div Jump < MaxJumps
    /\ now' = now + Jump
    /\ UNCHANGED <<users, roles, wallet, req, permIn, permOut, storeVars, partVars>>

\* a call of userService.Login for the login route; req.msg holds the error
\* it returned (the empty string for nil) and req.token the token.  The
\* clock may tick between the two readings GenerateToken takes.
LoginRequest ==
    /\ req.pc = "idle"
    /\ Cardinality(wallet) < MaxTokens
    /\ \E username \in {"alice", "bob", "mallory"}, password \in {Secret1, Hunter22},
          dbOk \in BOOLEAN, d \in {0, 1} :
        LET got == Login(users, username, password, dbOk, now, now + d)
        IN  /\ Ticks + d <= MaxTicks
            /\ got.err # "" => d = 0
            /\ now' = now + d
            /\ wallet' = IF got.err = "" THEN wallet \cup {[tok |-> got.token, u |-> got.u]}
                         ELSE wallet
            /\ req' = [IdleReq EXCEPT !.pc = "done", !.route = "login", !.at = now,
                                      !.msg = <<got.err>>, !.token = got.token,
                                      !.body = [NoBody EXCEPT !.Username = username,
                                                              !.Password = password]]
    /\ UNCHANGED <<users, roles, permIn, permOut, storeVars, partVars>>

\* a request to a route mounted behind AuthMiddleware: "auth" is a route of
\* protectedMux as main registers them, "auth+authz" one whose handler is
\* wrapped by Authorize as well
ServeProtected ==
    /\ req.pc = "idle"
    /\ \E route \in {"auth", "auth+authz"}, header \in Headers(now) :
       \E perm \in IF route = "auth" THEN {<<>>} ELSE RequiredPerms :
        LET r == AuthMiddleware(header, now)
            arrived == [IdleReq EXCEPT !.route = route, !.header = header,
                                       !.perm = perm, !.at = now,
                                       !.validated = r.validated]
        IN  req' = IF ~r.next
                   THEN [arrived EXCEPT !.pc = "done", !.code = r.code, !.msg = r.msg]
                   ELSE IF route = "auth"
                   THEN [arrived EXCEPT !.pc = "done", !.ctx = r.ctx, !.code = 200,
                                        !.handler = TRUE, !.handlerCtx = r.ctx]
                   ELSE [arrived EXCEPT !.pc = "authz", !.ctx = r.ctx]
    /\ UNCHANGED <<now, users, roles, wallet, permIn, permOut, storeVars, partVars>>

\* a request to a route whose handler is wrapped by Authorize but that is
\* not mounted behind AuthMiddleware
ServeUnauthenticated ==
    /\ req.pc = "idle"
    /\ \E perm \in RequiredPerms :
        req' = [IdleReq EXCEPT !.pc = "authz", !.route = "authz", !.perm = perm,
                               !.at = now]
    /\ UNCHANGED <<now, users, roles, wallet, permIn, permOut, storeVars, partVars>>

\* Authorize up to the read of the user store
AuthorizeLoadUser ==
    /\ req.pc = "authz"
    /\ \E dbOk \in BOOLEAN :
        LET r == AuthorizeUser(req.ctx, users, dbOk)
            entered == [req EXCEPT !.entered = TRUE, !.calls = r.calls,
                                   !.userFailed = /\ "userID" \in DOMAIN req.ctx
                                                  /\ (~dbOk \/ req.ctx["userID"] \notin DOMAIN users)]
        IN  req' = IF r.code # 0
                   THEN [entered EXCEPT !.pc = "done", !.code = r.code, !.msg = r.msg]
                   ELSE [entered EXCEPT !.pc = "policy", !.u = r.u]
    /\ UNCHANGED <<now, users, roles, wallet, permIn, permOut, storeVars, partVars>>

\* Authorize from the read of the role store on
AuthorizeDecide ==
    /\ req.pc = "policy"
    /\ \E dbOk \in BOOLEAN :
        LET listed == List(roles, dbOk)
            r == AuthorizePolicy(req.u, req.perm, listed)
            called == [req EXCEPT !.pc = "done",
                                  !.calls = Append(req.calls, "GetPolicyMap"),
                                  !.listFailed = ~dbOk,
                                  !.policyNil = GetPolicyMap(listed).isNil,
                                  !.policy = GetPolicyMap(listed).policy]
        IN  req' = IF ~r.next
                   THEN [called EXCEPT !.code = r.code, !.msg = r.msg]
                   ELSE [called EXCEPT !.code = 200, !.handler = TRUE,
                                       !.handlerCtx = req.ctx]
    /\ UNCHANGED <<now, users, roles, wallet, permIn, permOut, storeVars, partVars>>

\* the response has been written and the request, with its context, is gone
Respond ==
    /\ req.pc = "done"
    /\ req' = IdleReq
    /\ UNCHANGED <<now, users, roles, wallet, permIn, permOut, storeVars, partVars>>

\* userService.DeleteUser of a stored user, by another request
DeleteUser ==
    /\ \E id \in DOMAIN users :
        users' = [i \in DOMAIN users \ {id} |-> users[i]]
    /\ UNCHANGED <<now, roles, wallet, req, permIn, permOut, storeVars, partVars>>

Next ==
    \/ Tick
    \/ Wait
    \/ LoginRequest
    \/ ServeProtected
    \/ ServeUnauthenticated
    \/ AuthorizeLoadUser
    \/ AuthorizeDecide
    \/ Respond
    \/ DeleteUser

Spec == Init /\ [][Next]_vars

\* the token of an administrator's session: what Login issued to bob when
\* the server started
AdminToken == GenerateToken(InitUsers[2], 0, 0)

\* the Authorization headers of the account requests
AccountHeaders == {[text |-> <<"Bearer", " ", "$T">>, jwt |-> AdminToken], NoHeader}

\* the passwords of the account requests: empty, of 5, of 6 and of 8 characters
NewPasswords == {<<>>, SubSeq(Secret1, 1, 5), SubSeq(Secret1, 1, 6), Hunter22}

\* the bodies of POST /users
UserInputs ==
    [Username : {"", "alice", "mallory"}, Password : NewPasswords,
     Role : {""}, Active : {FALSE}]

\* the {id} of a path: one that strconv.Atoi refuses has err set
PathIds == {[err |-> FALSE, id |-> i] : i \in {1, 3}} \cup {[err |-> TRUE, id |-> 0]}

\* the request of an account route as AuthMiddleware passed it on or answered it
Arrived(route, header) ==
    LET r == AuthMiddleware(header, now)
    IN  IF r.next
        THEN [IdleReq EXCEPT !.route = route, !.header = header, !.at = now,
                             !.validated = r.validated, !.ctx = r.ctx]
        ELSE [IdleReq EXCEPT !.route = route, !.header = header, !.at = now,
                             !.validated = r.validated, !.pc = "done",
                             !.code = r.code, !.msg = r.msg]

\* POST /users: AuthMiddleware, then UserHandler.HandleCreate
HandleCreate ==
    /\ req.pc = "idle"
    /\ salts < 2 + MaxHashes
    /\ \E header \in AccountHeaders, jsonOk \in BOOLEAN, input \in UserInputs,
          dbOk \in BOOLEAN :
        LET a == Arrived("POST /users", header)
            got == RegisterUser(users, userSeq, input, salts + 1, dbOk)
        IN  IF a.pc = "done"
            THEN req' = a /\ UNCHANGED <<users, userSeq, salts>>
            ELSE IF ~jsonOk
            THEN /\ req' = [a EXCEPT !.pc = "done", !.handler = TRUE, !.handlerCtx = a.ctx,
                                     !.code = 400, !.msg = <<"Invalid JSON body">>]
                 /\ UNCHANGED <<users, userSeq, salts>>
            ELSE /\ req' = [a EXCEPT !.pc = "done", !.handler = TRUE, !.handlerCtx = a.ctx,
                                     !.body = input, !.hashed = got.hashed,
                                     !.code = IF got.err = "" THEN 201
                                              ELSE respondWithError(got.err),
                                     !.msg = <<got.err>>]
                 /\ users' = got.store
                 /\ userSeq' = got.seq
                 /\ salts' = IF got.hashed THEN salts + 1 ELSE salts
    /\ UNCHANGED <<now, roles, wallet, permIn, permOut, partVars>>

\* PATCH /users/{id}/password: AuthMiddleware, then
\* UserHandler.HandleChangePassword
HandleChangePassword ==
    /\ req.pc = "idle"
    /\ salts < 2 + MaxHashes
    /\ \E header \in AccountHeaders, path \in PathIds, jsonOk \in BOOLEAN,
          password \in NewPasswords, dbOk \in BOOLEAN :
        LET a == Arrived("PATCH /users/{id}/password", header)
            got == ChangePassword(users, path.id, password, salts + 1, dbOk)
            h == [a EXCEPT !.pc = "done", !.handler = TRUE, !.handlerCtx = a.ctx]
        IN  IF a.pc = "done"
            THEN req' = a /\ UNCHANGED <<users, salts>>
            ELSE IF path.err
            THEN /\ req' = [h EXCEPT !.code = 400, !.msg = <<"Invalid ID">>]
                 /\ UNCHANGED <<users, salts>>
            ELSE IF ~jsonOk
            THEN /\ req' = [h EXCEPT !.code = 400, !.msg = <<"Invalid JSON body">>,
                                     !.id = path.id]
                 /\ UNCHANGED <<users, salts>>
            ELSE /\ req' = [h EXCEPT !.id = path.id,
                                     !.body = [NoBody EXCEPT !.Password = password],
                                     !.hashed = got.hashed,
                                     !.code = IF got.err = "" THEN 200
                                              ELSE respondWithError(got.err),
                                     !.msg = <<got.err>>]
                 /\ users' = got.store
                 /\ salts' = IF got.hashed THEN salts + 1 ELSE salts
    /\ UNCHANGED <<now, roles, wallet, permIn, permOut, userSeq, partVars>>

\* PATCH /users/{id}/active: AuthMiddleware, then
\* UserHandler.HandleToggleActive
HandleToggleActive ==
    /\ req.pc = "idle"
    /\ \E header \in AccountHeaders, path \in PathIds, jsonOk \in BOOLEAN,
          active \in BOOLEAN, dbOk \in BOOLEAN :
        LET a == Arrived("PATCH /users/{id}/active", header)
            got == ToggleActive(users, path.id, active, dbOk)
            h == [a EXCEPT !.pc = "done", !.handler = TRUE, !.handlerCtx = a.ctx]
        IN  IF a.pc = "done"
            THEN req' = a /\ UNCHANGED users
            ELSE IF path.err
            THEN req' = [h EXCEPT !.code = 400, !.msg = <<"Invalid ID">>]
                 /\ UNCHANGED users
            ELSE IF ~jsonOk
            THEN req' = [h EXCEPT !.code = 400, !.msg = <<"Invalid JSON body">>,
                                  !.id = path.id]
                 /\ UNCHANGED users
            ELSE /\ req' = [h EXCEPT !.id = path.id,
                                     !.body = [NoBody EXCEPT !.Active = active],
                                     !.code = IF got.err = "" THEN 200
                                              ELSE respondWithError(got.err),
                                     !.msg = <<got.err>>]
                 /\ users' = got.store
    /\ UNCHANGED <<now, roles, wallet, permIn, permOut, storeVars, partVars>>

\* a mutant of the request with a held token: the token is accepted only
\* while the user it names is stored and active
ServeHeldRevocable ==
    /\ req.pc = "idle"
    /\ \E w \in wallet :
        LET header == [text |-> <<"Bearer", " ", "$T">>, jwt |-> w.tok]
            a == Arrived("auth", header)
            got == GetByID(users, w.tok.payload.user_id, TRUE)
        IN  req' = IF a.pc = "done" THEN a
                   ELSE IF got.err # "" \/ ~got.u.Active
                   THEN [a EXCEPT !.pc = "done", !.code = 401, !.ctx = NoCtx,
                                  !.msg = <<"Invalid or expired token">>]
                   ELSE [a EXCEPT !.pc = "done", !.code = 200, !.handler = TRUE,
                                  !.handlerCtx = a.ctx]
    /\ UNCHANGED <<now, users, roles, wallet, permIn, permOut, storeVars, partVars>>

\* a request to a route of protectedMux that carries a held token as it was
\* issued
ServeHeld ==
    /\ req.pc = "idle"
    /\ \E w \in wallet :
        LET header == [text |-> <<"Bearer", " ", "$T">>, jwt |-> w.tok]
            a == Arrived("auth", header)
        IN  req' = IF a.pc = "done" THEN a
                   ELSE [a EXCEPT !.pc = "done", !.code = 200, !.handler = TRUE,
                                  !.handlerCtx = a.ctx]
    /\ UNCHANGED <<now, users, roles, wallet, permIn, permOut, storeVars, partVars>>

NextAccounts ==
    \/ LoginRequest
    \/ HandleCreate
    \/ HandleChangePassword
    \/ HandleToggleActive
    \/ DeleteUser
    \/ Respond

SpecAccounts == Init /\ [][NextAccounts]_vars

(***************************************************************************)
(* The token-lifetime specification: tokens are issued and presented while *)
(* the clock advances and the accounts they name are deactivated, deleted  *)
(* or given another password.                                              *)
(***************************************************************************)
NextStateless ==
    \/ Tick
    \/ Wait
    \/ LoginRequest
    \/ ServeHeld
    \/ HandleChangePassword
    \/ HandleToggleActive
    \/ DeleteUser
    \/ Respond

SpecStateless == Init /\ [][NextStateless]_vars

(***************************************************************************)
(* The credential specification: SetPassword, CheckPassword and the two    *)
(* operations of the user service that store a hash are applied to a       *)
(* password of a bounded set and to that password with an x appended.      *)
(***************************************************************************)
\* passwords of 0 to 7 characters, and one of the 72 characters that bcrypt
\* takes at most
CredPasswords ==
    {SubSeq(Secret1, 1, k) : k \in 0..Len(Secret1)} \cup {[i \in 1..72 |-> "p"]}

\* stored strings that are no bcrypt hash: the empty string and the
\* "hashed_" + password of the earlier user service
MalformedHashes(password) ==
    {NoHash, [prefix |-> "hashed_", salt |-> 0, digest |-> <<0, password>>]}

InitCred ==
    /\ cred \in {[NoCred EXCEPT !.pc = "ready", !.pw = p] : p \in CredPasswords}
    /\ now = 0
    /\ users = InitUsers
    /\ roles = InitRoles
    /\ wallet = {}
    /\ req = IdleReq
    /\ permIn = [fn |-> "none"]
    /\ permOut = <<>>
    /\ userSeq = 2
    /\ salts = 2
    /\ svc = NoSvc
    /\ orders = <<>>
    /\ inventory = <<>>
    /\ reqs = NoReqs
    /\ tx = NoTx

\* a call of SetPassword on a fresh User
CallSetPassword ==
    /\ cred.pc = "ready"
    /\ Len(cred.made) < MaxSetPasswordCalls
    /\ \E raw \in {cred.pw, Append(cred.pw, "x")} :
        LET r == SetPassword(NoUser, raw, salts + 1)
        IN  /\ cred' = [cred EXCEPT !.made = Append(@, [pw |-> raw, err |-> r.err,
                                                        hash |-> r.u.Hash])]
            /\ salts' = IF r.err = "" THEN salts + 1 ELSE salts
    /\ UNCHANGED <<now, users, roles, wallet, req, permIn, permOut, userSeq, reqs, tx, shopVars>>

\* a call of CheckPassword on a User whose Hash is one SetPassword made or
\* a malformed one
CallCheckPassword ==
    /\ cred.pc = "ready"
    /\ \E h \in {cred.made[i].hash : i \in 1..Len(cred.made)} \cup MalformedHashes(cred.pw),
          raw \in {cred.pw, Append(cred.pw, "x")} :
        cred' = [cred EXCEPT !.check =
                    <<[hash |-> h, pw |-> raw,
                       ok |-> CheckPassword([NoUser EXCEPT !.Hash = h], raw)]>>]
    /\ UNCHANGED <<now, users, roles, wallet, req, permIn, permOut, storeVars, reqs, tx, shopVars>>

\* a call of userService.RegisterUser with the password
CallRegisterUser ==
    /\ cred.pc = "ready"
    /\ cred.call = <<>>
    /\ \E username \in {"", "alice", "mallory"}, dbOk \in BOOLEAN :
        LET input == [Username |-> username, Password |-> cred.pw, Role |-> "",
                      Active |-> FALSE]
            got == RegisterUser(users, userSeq, input, salts + 1, dbOk)
        IN  /\ cred' = [cred EXCEPT !.call =
                           <<[fn |-> "RegisterUser", username |-> username, id |-> 0,
                              err |-> got.err, hashed |-> got.hashed]>>]
            /\ users' = got.store
            /\ userSeq' = got.seq
            /\ salts' = IF got.hashed THEN salts + 1 ELSE salts
    /\ UNCHANGED <<now, roles, wallet, req, permIn, permOut, reqs, tx, shopVars>>

\* a call of userService.ChangePassword with the password
CallChangePassword ==
    /\ cred.pc = "ready"
    /\ cred.call = <<>>
    /\ \E id \in {1, 3}, dbOk \in BOOLEAN :
        LET got == ChangePassword(users, id, cred.pw, salts + 1, dbOk)
        IN  /\ cred' = [cred EXCEPT !.call =
                           <<[fn |-> "ChangePassword", username |-> "", id |-> id,
                              err |-> got.err, hashed |-> got.hashed]>>]
            /\ users' = got.store
            /\ salts' = IF got.hashed THEN salts + 1 ELSE salts
    /\ UNCHANGED <<now, roles, wallet, req, permIn, permOut, userSeq, reqs, tx, shopVars>>

NextCred ==
    \/ CallSetPassword
    \/ CallCheckPassword
    \/ CallRegisterUser
    \/ CallChangePassword

SpecCred == InitCred /\ [][NextCred]_vars

(***************************************************************************)
(* The authorization specification: a request with a held token passes     *)
(* AuthMiddleware and Authorize while other requests call the user service *)
(* and the role service.  UpdateUser, AddPermission and RemovePermission   *)
(* read a row and write it back in two statements, between which the       *)
(* statements of other requests fall.                                      *)
(***************************************************************************)
\* a service call: its arguments, the row it read, whether it has returned
\* and the error it returned
NoCall ==
    [op |-> "", id |-> 0, input |-> NoBody, perm |-> <<>>, user |-> NoUser,
     role |-> NoRole, done |-> FALSE, err |-> ""]

\* the calls once call i has returned err; the row it read is gone with it
Returned(calls, i, err) ==
    [calls EXCEPT ![i] = [@ EXCEPT !.done = TRUE, !.err = err, !.user = NoUser,
                                   !.role = NoRole]]

\* the inputs of UpdateUser: another role
UpdateInputs == {[NoBody EXCEPT !.Role = r] : r \in {"manager", "guest"}}

\* the user the other requests work on
EditedUsers == {1}

\* the role and the permissions the other requests edit
EditedRoles == {1}
EditedPerms == {PermOrderRead, PermOrderDelete}

\* Authorize is between its entry and its decision
Checking == req.pc \in {"authz", "policy"}

\* the user's role as stored holds the permission under the policy as stored
Grants(store, rows, id, perm) ==
    /\ id \in DOMAIN store
    /\ store[id].Role \in {rows[i].Slug : i \in 1..Len(rows)}
    /\ \E i \in 1..Len(rows) :
        /\ rows[i].Slug = store[id].Role
        /\ HasPermission(rows[i].Permissions, perm)

\* the request in flight when the stores have become store and rows: it
\* notes whether they would justify a grant of the check it is in
Observe(store, rows) ==
    [req EXCEPT !.justified = \/ @
                              \/ /\ Checking
                                 /\ "userID" \in DOMAIN req.ctx
                                 /\ Grants(store, rows, req.ctx["userID"], req.perm)]

\* a request with a held token to a route whose handler is wrapped by
\* Authorize: AuthMiddleware, then the entry of Authorize
ServeGated ==
    /\ req.pc = "idle"
    /\ \E w \in wallet, perm \in RequiredPerms :
        LET header == [text |-> <<"Bearer", " ", "$T">>, jwt |-> w.tok]
            a == Arrived("auth+authz", header)
        IN  req' = IF a.pc = "done" THEN [a EXCEPT !.perm = perm]
                   ELSE [a EXCEPT !.pc = "authz", !.perm = perm,
                                  !.justified = Grants(users, roles, a.ctx["userID"], perm)]
    /\ UNCHANGED <<now, users, roles, wallet, permIn, permOut, storeVars, partVars>>

\* userService.UpdateUser up to its read of the row
UpdateUserBegin(room) ==
    /\ Len(svc) < room
    /\ \E id \in EditedUsers, input \in UpdateInputs :
        LET got == GetByID(users, id, TRUE)
        IN  /\ got.err = ""
            /\ svc' = Append(svc, [NoCall EXCEPT !.op = "UpdateUser", !.id = id,
                                                  !.input = input, !.user = got.u])
    /\ UNCHANGED <<now, users, roles, wallet, req, permIn, permOut, storeVars,
                   reqs, cred, tx, orders, inventory>>

\* userService.UpdateUser from its read on: repo.Update writes the row it
\* read with the fields of the input
UpdateUserEnd ==
    /\ \E i \in 1..Len(svc), dbOk \in BOOLEAN :
        LET put == Update(users, UpdateFields(svc[i].user, svc[i].input), dbOk)
        IN  /\ svc[i].op = "UpdateUser"
            /\ ~svc[i].done
            /\ users' = put.store
            /\ svc' = Returned(svc, i, put.err)
    /\ req' = Observe(users', roles)
    /\ UNCHANGED <<now, roles, wallet, permIn, permOut, storeVars,
                   reqs, cred, tx, orders, inventory>>

\* roleService.AddPermission up to its read of the role
AddPermissionBegin(room) ==
    /\ Len(svc) < room
    /\ \E id \in EditedRoles, permission \in EditedPerms :
        LET got == RoleGetByID(roles, id, TRUE)
        IN  /\ got.err = ""
            /\ svc' = Append(svc, [NoCall EXCEPT !.op = "AddPermission", !.id = id,
                                                  !.perm = permission, !.role = got.role])
    /\ UNCHANGED <<now, users, roles, wallet, req, permIn, permOut, storeVars,
                   reqs, cred, tx, orders, inventory>>

\* roleService.AddPermission from its read on
AddPermissionEnd ==
    /\ \E i \in 1..Len(svc), dbOk \in BOOLEAN :
        LET added == AddedPermission(svc[i].role, svc[i].perm)
            put == IF added.write THEN RoleUpdate(roles, added.role, dbOk)
                   ELSE [err |-> "", rows |-> roles]
        IN  /\ svc[i].op = "AddPermission"
            /\ ~svc[i].done
            /\ roles' = put.rows
            /\ svc' = Returned(svc, i, put.err)
    /\ req' = Observe(users, roles')
    /\ UNCHANGED <<now, users, wallet, permIn, permOut, storeVars,
                   reqs, cred, tx, orders, inventory>>

\* roleService.RemovePermission up to its read of the role
RemovePermissionBegin(room) ==
    /\ Len(svc) < room
    /\ \E id \in EditedRoles, permission \in EditedPerms :
        LET got == RoleGetByID(roles, id, TRUE)
        IN  /\ got.err = ""
            /\ svc' = Append(svc, [NoCall EXCEPT !.op = "RemovePermission", !.id = id,
                                                  !.perm = permission, !.role = got.role])
    /\ UNCHANGED <<now, users, roles, wallet, req, permIn, permOut, storeVars,
                   reqs, cred, tx, orders, inventory>>

\* roleService.RemovePermission from its read on
RemovePermissionEnd ==
    /\ \E i \in 1..Len(svc), dbOk \in BOOLEAN :
        LET removed == RemovedPermission(svc[i].role, svc[i].perm)
            put == IF removed.write THEN RoleUpdate(roles, removed.role, dbOk)
                   ELSE [err |-> "", rows |-> roles]
        IN  /\ svc[i].op = "RemovePermission"
            /\ ~svc[i].done
            /\ roles' = put.rows
            /\ svc' = Returned(svc, i, put.err)
    /\ req' = Observe(users, roles')
    /\ UNCHANGED <<now, users, wallet, permIn, permOut, storeVars,
                   reqs, cred, tx, orders, inventory>>

\* userService.ToggleActive, called for another request
SetUserActive ==
    /\ \E id \in EditedUsers, active \in BOOLEAN :
        /\ users[id].Active # active
        /\ users' = ToggleActive(users, id, active, TRUE).store
    /\ req' = Observe(users', roles)
    /\ UNCHANGED <<now, roles, wallet, permIn, permOut, storeVars, partVars>>

\* alice has logged in
InitAuthz ==
    /\ wallet = {[tok |-> GenerateToken(InitUsers[1], 0, 0), u |-> InitUsers[1]]}
    /\ now = 0
    /\ users = InitUsers
    /\ roles = InitRoles
    /\ req = IdleReq
    /\ permIn = [fn |-> "none"]
    /\ permOut = <<>>
    /\ userSeq = 2
    /\ salts = 2
    /\ svc = NoSvc
    /\ orders = <<>>
    /\ inventory = <<>>
    /\ reqs = NoReqs
    /\ cred = NoCred
    /\ tx = NoTx

NextAuthz ==
    \/ ServeGated
    \/ AuthorizeLoadUser
    \/ AuthorizeDecide
    \/ Respond
    \/ UpdateUserBegin(MaxAdminCalls)
    \/ UpdateUserEnd
    \/ AddPermissionBegin(MaxAdminCalls)
    \/ AddPermissionEnd
    \/ RemovePermissionBegin(MaxAdminCalls)
    \/ RemovePermissionEnd
    \/ SetUserActive

SpecAuthz == InitAuthz /\ [][NextAuthz]_vars

(***************************************************************************)
(* The user-store specification: requests call UpdateUser, ChangePassword  *)
(* and ToggleActive on one user; the statements of ChangePassword and      *)
(* ToggleActive fall between the read and the write of UpdateUser.         *)
(***************************************************************************)
\* userService.ChangePassword, called for another request
SetUserPassword ==
    /\ salts < 2 + MaxHashes
    /\ \E id \in EditedUsers, newPassword \in {Hunter22, SubSeq(Secret1, 1, 5)} :
        LET got == ChangePassword(users, id, newPassword, salts + 1, TRUE)
        IN  /\ users' = got.store
            /\ salts' = IF got.hashed THEN salts + 1 ELSE salts
    /\ req' = Observe(users', roles)
    /\ UNCHANGED <<now, roles, wallet, permIn, permOut, userSeq, partVars>>

NextUsers ==
    \/ UpdateUserBegin(MaxEdits)
    \/ UpdateUserEnd
    \/ SetUserActive
    \/ SetUserPassword

SpecUsers == Init /\ [][NextUsers]_vars

(***************************************************************************)
(* The role-store specification: requests call AddPermission and           *)
(* RemovePermission on one role, each between its read and its write while *)
(* the others run.                                                         *)
(***************************************************************************)
NextRoles ==
    \/ AddPermissionBegin(MaxEdits)
    \/ AddPermissionEnd
    \/ RemovePermissionBegin(MaxEdits)
    \/ RemovePermissionEnd

SpecRoles == Init /\ [][NextRoles]_vars

(***************************************************************************)
(* The order specification: requests call orderService.CreateOrder and     *)
(* orderService.ProcessPayment.  Amounts are int64 in the code; the        *)
(* amounts of the model are far from its limits, and the orders table      *)
(* takes no negative total or paid, so that paid - total does not wrap.    *)
(***************************************************************************)
ErrOrderNotFound == "order not found"
ErrInvalidOrderInput == "invalid order input"
ErrInvalidPayment == "invalid payment amount"

\* the zero Order
NoOrder == [Id |-> 0, Items |-> <<>>, ClerkId |-> 0, Total |-> 0, Paid |-> 0, Change |-> 0]

\* orderRepository.Create; the id of a row is its index, dbOk is whether
\* the INSERT succeeds
OrderCreate(store, order, dbOk) ==
    IF Len(order.Items) = 0 \/ order.ClerkId = 0
    THEN [err |-> ErrInvalidOrderInput, store |-> store, order |-> order]
    ELSE IF order.Paid < 0 \/ order.Total < 0
    THEN [err |-> ErrInvalidPayment, store |-> store, order |-> order]
    ELSE LET change == IF order.Change = 0 /\ order.Paid > 0
                       THEN order.Paid - order.Total ELSE order.Change
             created == [order EXCEPT !.Change = change, !.Id = Len(store) + 1]
         IN  IF ~dbOk
             THEN [err |-> "failed to create order", store |-> store,
                   order |-> [order EXCEPT !.Change = change]]
             ELSE [err |-> "", store |-> Append(store, created), order |-> created]

\* a mutant of CreateOrder: a payment below the total is refused
CreateOrderRejectUnderpaid(store, order, dbOk) ==
    IF Len(order.Items) = 0 \/ order.ClerkId = 0 \/ order.Paid < order.Total
    THEN [err |-> ErrInvalidOrderInput, store |-> store, order |-> NoOrder]
    ELSE LET put == OrderCreate(store, [order EXCEPT !.Change = order.Paid - order.Total], dbOk)
         IN  IF put.err # "" THEN [err |-> put.err, store |-> store, order |-> NoOrder]
             ELSE put

\* orderService.CreateOrder
CreateOrder(store, order, dbOk) ==
    IF Len(order.Items) = 0 \/ order.ClerkId = 0
    THEN [err |-> ErrInvalidOrderInput, store |-> store, order |-> NoOrder]
    ELSE LET change == IF order.Paid >= order.Total THEN order.Paid - order.Total
                       ELSE IF order.Paid > 0 THEN order.Paid - order.Total
                       ELSE order.Change
             put == OrderCreate(store, [order EXCEPT !.Change = change], dbOk)
         IN  IF put.err # "" THEN [err |-> put.err, store |-> store, order |-> NoOrder]
             ELSE put

\* orderRepository.UpdatePayment: the SELECT of the total, then the UPDATE
\* of paid and change; no statement of the order service changes a total
UpdatePayment(store, id, paid, dbOk) ==
    IF paid < 0 THEN [err |-> ErrInvalidPayment, store |-> store]
    ELSE IF ~dbOk THEN [err |-> "failed to get order total", store |-> store]
    ELSE IF id \notin 1..Len(store) THEN [err |-> ErrOrderNotFound, store |-> store]
    ELSE LET change == paid - store[id].Total
         IN  [err |-> "", store |-> [store EXCEPT ![id].Paid = paid, ![id].Change = change]]

\* orderService.ProcessPayment
ProcessPayment(store, id, amountPaid, dbOk) == UpdatePayment(store, id, amountPaid, dbOk)

\* amounts of money a client sends
Money == -1..MaxMoney

\* the orders a client sends: without items or with one, without clerk or
\* with alice, with no change field or with one
OrderInputs ==
    [Id : {0}, Items : {<<>>, <<"latte">>}, ClerkId : {0, 1}, Total : Money,
     Paid : Money, Change : {0, 1}]

\* the last call of the order service: its arguments and what it returned
NoShopCall ==
    [op |-> "", id |-> 0, order |-> NoOrder, amount |-> 0, dbOk |-> FALSE,
     err |-> "", created |-> NoOrder]

\* a call of orderService.CreateOrder
CallCreateOrder ==
    /\ Len(orders) < MaxOrders
    /\ \E order \in OrderInputs, dbOk \in BOOLEAN :
        LET got == CreateOrder(orders, order, dbOk)
        IN  /\ orders' = got.store
            /\ svc' = <<[NoShopCall EXCEPT !.op = "CreateOrder", !.order = order,
                                           !.dbOk = dbOk, !.err = got.err,
                                           !.created = got.order]>>
    /\ UNCHANGED <<now, users, roles, wallet, req, permIn, permOut, storeVars,
                   reqs, cred, tx, inventory>>

\* a call of orderService.ProcessPayment
CallProcessPayment ==
    /\ \E id \in 1..(MaxOrders + 1), amountPaid \in Money, dbOk \in BOOLEAN :
        LET got == ProcessPayment(orders, id, amountPaid, dbOk)
        IN  /\ orders' = got.store
            /\ svc' = <<[NoShopCall EXCEPT !.op = "ProcessPayment", !.id = id,
                                           !.amount = amountPaid, !.dbOk = dbOk,
                                           !.err = got.err]>>
    /\ UNCHANGED <<now, users, roles, wallet, req, permIn, permOut, storeVars,
                   reqs, cred, tx, inventory>>

NextOrders ==
    \/ CallCreateOrder
    \/ CallProcessPayment

SpecOrders == Init /\ [][NextOrders]_vars

(***************************************************************************)
(* The inventory specification: requests call                              *)
(* inventoryService.CreateInventory and inventoryService.AdjustStock.      *)
(* The stock column is BIGINT; the stocks of the model stay within         *)
(* MaxStock of zero, far from its limits.                                  *)
(***************************************************************************)
ErrNotFound == "inventory not found"
ErrInvalidInput == "invalid input"
ErrDuplicateSlug == "slug already exists"

\* the zero Inventory
NoInventory == [Id |-> 0, Slug |-> "", Name |-> "", Stock |-> 0]

\* inventoryRepository.Create; the id of a row is its index, dbOk is
\* whether the database takes the INSERT, and a second row with the slug is
\* a unique violation
InventoryCreate(store, inv, dbOk) ==
    IF inv.Slug = "" \/ inv.Name = ""
    THEN [err |-> ErrInvalidInput, store |-> store]
    ELSE IF ~dbOk THEN [err |-> "failed to create inventory", store |-> store]
    ELSE IF \E i \in 1..Len(store) : store[i].Slug = inv.Slug
    THEN [err |-> IF isDuplicateKeyError("unique_violation") THEN ErrDuplicateSlug
                  ELSE "failed to create inventory",
          store |-> store]
    ELSE [err |-> "", store |-> Append(store, [inv EXCEPT !.Id = Len(store) + 1])]

\* inventoryService.CreateInventory
CreateInventory(store, input, dbOk) ==
    IF input.Name = "" \/ input.Slug = "" THEN [err |-> ErrInvalidInput, store |-> store]
    ELSE IF input.Stock < 0 THEN [err |-> ErrInvalidInput, store |-> store]
    ELSE InventoryCreate(store, input, dbOk)

\* inventoryRepository.UpdateStock: UPDATE inventory SET stock = stock + $1;
\* the table has no constraint on the stock
UpdateStock(store, id, delta, dbOk) ==
    IF ~dbOk THEN [err |-> "failed to update stock", store |-> store]
    ELSE IF id \notin 1..Len(store) THEN [err |-> ErrNotFound, store |-> store]
    ELSE [err |-> "", store |-> [store EXCEPT ![id].Stock = @ + delta]]

\* inventoryService.AdjustStock
AdjustStock(store, id, delta, dbOk) ==
    IF delta = 0 THEN [err |-> "", store |-> store]
    ELSE UpdateStock(store, id, delta, dbOk)

\* the items a client sends
InventoryInputs ==
    [Id : {0}, Slug : {"", "beans"}, Name : {"", "Beans"}, Stock : -1..1]

\* the last call of the inventory service: its arguments and what it
\* returned
NoStockCall == [op |-> "", id |-> 0, item |-> NoInventory, delta |-> 0, err |-> ""]

\* a call of inventoryService.CreateInventory
CallCreateInventory ==
    /\ Len(inventory) < MaxItems
    /\ \E input \in InventoryInputs, dbOk \in BOOLEAN :
        LET got == CreateInventory(inventory, input, dbOk)
        IN  /\ inventory' = got.store
            /\ svc' = <<[NoStockCall EXCEPT !.op = "CreateInventory", !.item = input,
                                            !.err = got.err]>>
    /\ UNCHANGED <<now, users, roles, wallet, req, permIn, permOut, storeVars,
                   reqs, cred, tx, orders>>

\* a call of inventoryService.AdjustStock
CallAdjustStock ==
    /\ \E id \in 1..(MaxItems + 1), delta \in -MaxStock..MaxStock, dbOk \in BOOLEAN :
        LET got == AdjustStock(inventory, id, delta, dbOk)
        IN  /\ \A i \in 1..Len(got.store) :
                  got.store[i].Stock \in -MaxStock..MaxStock
            /\ inventory' = got.store
            /\ svc' = <<[NoStockCall EXCEPT !.op = "AdjustStock", !.id = id,
                                            !.delta = delta, !.err = got.err]>>
    /\ UNCHANGED <<now, users, roles, wallet, req, permIn, permOut, storeVars,
                   reqs, cred, tx, orders>>

NextInventory ==
    \/ CallCreateInventory
    \/ CallAdjustStock

SpecInventory == Init /\ [][NextInventory]_vars

(***************************************************************************)
(* The concurrent-requests specification: up to MaxRequests requests to    *)
(* routes behind AuthMiddleware are in flight at a time, each served by    *)
(* its own goroutine.  A request carries, beside the Authorization header, *)
(* data the client is free to choose (other headers, path, query, body);   *)
(* its context is the one the server made for it.                          *)
(***************************************************************************)
\* a connection without a request
IdleConn ==
    [pc |-> "idle", header |-> NoHeader, data |-> [xUserID |-> 0, role |-> ""],
     ctx |-> NoCtx, handlerCtx |-> NoCtx, code |-> 0]

\* what a client can put into the rest of a request: an identity it claims
\* in another header, in the query or in the body
RequestData ==
    {[xUserID |-> 0, role |-> ""], [xUserID |-> 2, role |-> "manager"],
     [xUserID |-> 1, role |-> "manager"]}

\* the Authorization headers of the concurrent requests: an issued token, an
\* issued token with the role in its payload changed, none
CtxHeaders ==
    {[text |-> <<"Bearer", " ", "$T">>, jwt |-> v] :
        v \in {w.tok : w \in wallet}
               \cup {[w.tok EXCEPT !.payload.role = "manager"] : w \in wallet}}
    \cup {NoHeader}

\* alice and bob have logged in
InitCtx ==
    /\ reqs = [i \in 1..MaxRequests |-> IdleConn]
    /\ wallet = {[tok |-> GenerateToken(InitUsers[id], 0, 0), u |-> InitUsers[id]] :
                    id \in {1, 2}}
    /\ now = 0
    /\ users = InitUsers
    /\ roles = InitRoles
    /\ req = IdleReq
    /\ permIn = [fn |-> "none"]
    /\ permOut = <<>>
    /\ userSeq = 2
    /\ salts = 2
    /\ svc = NoSvc
    /\ orders = <<>>
    /\ inventory = <<>>
    /\ cred = NoCred
    /\ tx = NoTx

\* the server accepts a request and makes its context
Arrive(i) ==
    /\ reqs[i].pc = "idle"
    /\ \E header \in CtxHeaders, data \in RequestData :
        reqs' = [reqs EXCEPT ![i] = [IdleConn EXCEPT !.pc = "arrived",
                                                     !.header = header, !.data = data]]
    /\ UNCHANGED <<now, users, roles, wallet, req, permIn, permOut, storeVars, cred, tx, shopVars>>

\* a mutant of the middleware step: an identity claimed in the request data
\* replaces the one of the token
AuthenticateTrustingData(i) ==
    /\ reqs[i].pc = "arrived"
    /\ LET r == AuthMiddleware(reqs[i].header, now)
           ctx == IF reqs[i].data.xUserID # 0
                  THEN ("userID" :> reqs[i].data.xUserID) @@ ("userRole" :> reqs[i].data.role)
                  ELSE r.ctx
       IN  reqs' = [reqs EXCEPT ![i] =
                      IF r.next THEN [@ EXCEPT !.pc = "handler", !.ctx = ctx]
                      ELSE [@ EXCEPT !.pc = "done", !.code = r.code]]
    /\ UNCHANGED <<now, users, roles, wallet, req, permIn, permOut, storeVars, cred, tx, shopVars>>

\* AuthMiddleware runs for request i: it answers 401, or derives the
\* context with the claims from the request's own context and passes the
\* request with it to the next handler
Authenticate(i) ==
    /\ reqs[i].pc = "arrived"
    /\ LET r == AuthMiddleware(reqs[i].header, now)
       IN  reqs' = [reqs EXCEPT ![i] =
                      IF r.next THEN [@ EXCEPT !.pc = "handler", !.ctx = r.ctx]
                      ELSE [@ EXCEPT !.pc = "done", !.code = r.code]]
    /\ UNCHANGED <<now, users, roles, wallet, req, permIn, permOut, storeVars, cred, tx, shopVars>>

\* the handler of request i runs and reads the identity of r.Context()
Handle(i) ==
    /\ reqs[i].pc = "handler"
    /\ reqs' = [reqs EXCEPT ![i] = [@ EXCEPT !.pc = "done", !.code = 200,
                                              !.handlerCtx = reqs[i].ctx]]
    /\ UNCHANGED <<now, users, roles, wallet, req, permIn, permOut, storeVars, cred, tx, shopVars>>

\* the response of request i is written; the request and its context are
\* gone
Finish(i) ==
    /\ reqs[i].pc = "done"
    /\ reqs' = [reqs EXCEPT ![i] = IdleConn]
    /\ UNCHANGED <<now, users, roles, wallet, req, permIn, permOut, storeVars, cred, tx, shopVars>>

NextCtx ==
    \E i \in 1..MaxRequests :
        \/ Arrive(i)
        \/ Authenticate(i)
        \/ Handle(i)
        \/ Finish(i)

SpecCtx == InitCtx /\ [][NextCtx]_vars

(***************************************************************************)
(* The transaction specification: TxManager.Run is called with a function  *)
(* that writes rows through the transaction and then returns nil, returns  *)
(* an error or panics.                                                     *)
(***************************************************************************)
\* the rows the function writes
Rows == {"r1", "r2"}

\* a mutant of the deferred function: it does not recover, and decides by
\* err alone
DeferredNoRecover(panicking, err, commitOk) ==
    IF err # ""
    THEN [events |-> <<"Rollback">>, err |-> err, repanic |-> panicking]
    ELSE [events |-> <<"Commit">>,
          err |-> IF commitOk THEN "" ELSE "failed to commit transaction",
          repanic |-> panicking]

\* the deferred function of Run: panicking is whether recover() returns a
\* value, err the named result as the function left it, commitOk whether
\* tx.Commit succeeds; the error of tx.Rollback is dropped
Deferred(panicking, err, commitOk) ==
    IF panicking
    THEN [events |-> <<"Rollback", "panic">>, err |-> err, repanic |-> TRUE]
    ELSE IF err # ""
    THEN [events |-> <<"Rollback">>, err |-> err, repanic |-> FALSE]
    ELSE [events |-> <<"Commit">>,
          err |-> IF commitOk THEN "" ELSE "failed to commit transaction",
          repanic |-> FALSE]

InitTx ==
    /\ tx = NoTx
    /\ now = 0
    /\ users = InitUsers
    /\ roles = InitRoles
    /\ wallet = {}
    /\ req = IdleReq
    /\ permIn = [fn |-> "none"]
    /\ permOut = <<>>
    /\ userSeq = 2
    /\ salts = 2
    /\ svc = NoSvc
    /\ orders = <<>>
    /\ inventory = <<>>
    /\ reqs = NoReqs
    /\ cred = NoCred

\* Run is called and calls BeginTx
RunBegin ==
    /\ tx.pc \in {"none", "returned", "panicked"}
    /\ tx.runs < MaxRuns
    /\ \E ok \in BOOLEAN :
        tx' = IF ok
              THEN [NoTx EXCEPT !.pc = "fn", !.runs = tx.runs + 1, !.began = TRUE,
                                !.durable = tx.durable]
              ELSE [NoTx EXCEPT !.pc = "returned", !.runs = tx.runs + 1,
                                !.durable = tx.durable,
                                !.err = "failed to begin transaction"]
    /\ UNCHANGED <<now, users, roles, wallet, req, permIn, permOut, storeVars, reqs, cred, shopVars>>

\* the function writes a row through the transaction client
FnExec ==
    /\ tx.pc = "fn"
    /\ Len(tx.pending) < MaxStatements
    /\ \E row \in Rows : tx' = [tx EXCEPT !.pending = Append(@, row)]
    /\ UNCHANGED <<now, users, roles, wallet, req, permIn, permOut, storeVars, reqs, cred, shopVars>>

\* the function ends: it returns nil or an error, which Run assigns to err,
\* or it panics, which leaves err as BeginTx set it
FnEnd ==
    /\ tx.pc = "fn"
    /\ \E outcome \in {"nil", "error", "panic"} :
        tx' = [tx EXCEPT !.pc = "defer", !.outcome = outcome,
                         !.err = IF outcome = "error" THEN "fn failed" ELSE ""]
    /\ UNCHANGED <<now, users, roles, wallet, req, permIn, permOut, storeVars, reqs, cred, shopVars>>

\* the deferred function runs, and Run returns or the panic goes on to the
\* caller
RunDefer ==
    /\ tx.pc = "defer"
    /\ \E commitOk \in BOOLEAN :
        LET d == Deferred(tx.outcome = "panic", tx.err, commitOk)
            committed == d.events = <<"Commit">> /\ commitOk
        IN  tx' = [tx EXCEPT !.pc = IF d.repanic THEN "panicked" ELSE "returned",
                                !.events = d.events,
                                !.err = d.err,
                                !.commitFailed = d.events = <<"Commit">> /\ ~commitOk,
                                !.durable = IF committed
                                            THEN @ \cup {tx.pending[i] : i \in 1..Len(tx.pending)}
                                            ELSE @,
                                !.pending = <<>>]
    /\ UNCHANGED <<now, users, roles, wallet, req, permIn, permOut, storeVars, reqs, cred, shopVars>>

NextTx ==
    \/ RunBegin
    \/ FnExec
    \/ FnEnd
    \/ RunDefer

SpecTx == InitTx /\ [][NextTx]_vars

(***************************************************************************)
(* The permission-matching specification: HasPermission and User.Can are   *)
(* applied to every input of a bounded set.                                *)
(***************************************************************************)
\* permission lists of at most two entries
PermLists(S) == {<<>>} \cup {<<p>> : p \in S} \cup {<<p, q>> : p \in S, q \in S}

\* permission lists of at most one entry
ShortPermLists(S) == {<<>>} \cup {<<p>> : p \in S}

PolicySlugs == {"clerk", "manager"}

\* policy maps: some of the slugs, each with a permission list
PolicyMaps ==
    UNION {[K -> ShortPermLists(Str(MaxPolicyPermLen))] : K \in SUBSET PolicySlugs}

HasPermissionInputs ==
    [fn : {"HasPermission"}, userPerms : PermLists(Str(MaxPermLen)),
     requiredPerm : Str(MaxPermLen), role : {""}, policy : {NoPolicy}]

CanInputs ==
    [fn : {"Can"}, userPerms : {<<>>}, requiredPerm : Str(MaxPolicyPermLen),
     role : PolicySlugs \cup {"ghost-role"}, policy : PolicyMaps]

InitPerm ==
    /\ permIn \in HasPermissionInputs \cup CanInputs
    /\ permOut = <<>>
    /\ now = 0
    /\ users = InitUsers
    /\ roles = InitRoles
    /\ wallet = {}
    /\ req = IdleReq
    /\ userSeq = 2
    /\ salts = 2
    /\ svc = NoSvc
    /\ orders = <<>>
    /\ inventory = <<>>
    /\ reqs = NoReqs
    /\ cred = NoCred
    /\ tx = NoTx

CallHasPermission ==
    /\ permIn.fn = "HasPermission"
    /\ permOut = <<>>
    /\ permOut' = <<HasPermission(permIn.userPerms, permIn.requiredPerm)>>
    /\ UNCHANGED <<permIn, now, users, roles, wallet, req, storeVars, partVars>>

CallCan ==
    /\ permIn.fn = "Can"
    /\ permOut = <<>>
    /\ permOut' = <<Can(permIn.role, permIn.requiredPerm, permIn.policy)>>
    /\ UNCHANGED <<permIn, now, users, roles, wallet, req, storeVars, partVars>>

NextPerm == CallHasPermission \/ CallCan

SpecPerm == InitPerm /\ [][NextPerm]_vars

(***************************************************************************)
(* Claims about permission matching                                        *)
(***************************************************************************)
\* C1 (deny-by-default): whenever User.Can has been applied to a user whose
\* role slug is not a key of the policy map, its answer is false, whatever
\* the map holds and whatever permission is required.
C1_DenyByDefault ==
    (permIn.fn = "Can" /\ permOut # <<>> /\ permIn.role \notin DOMAIN permIn.policy)
        => permOut[1] = FALSE

\* C1 witness: Can has answered for a role missing from a policy map in which
\* another role holds the required permission verbatim.
C1_Witness ==
    /\ permIn.fn = "Can"
    /\ permOut = <<FALSE>>
    /\ permIn.role = "ghost-role"
    /\ DOMAIN permIn.policy = PolicySlugs
    /\ permIn.policy["clerk"] = <<permIn.requiredPerm>>
    /\ Len(permIn.requiredPerm) = MaxPolicyPermLen

\* entry p is the wildcard X:* and r starts with X followed by a colon
WildcardGrants(p, r) ==
    \E k \in 0..Len(p) :
        /\ Len(p) = k + 2
        /\ p[k + 1] = ":"
        /\ p[k + 2] = "*"
        /\ Len(r) >= k + 1
        /\ \A i \in 1..k : r[i] = p[i]
        /\ r[k + 1] = ":"

\* C2 (wildcard matching): HasPermission answers true exactly when the
\* required permission is in the list verbatim or some entry X:* has the
\* required permission starting with X and a colon; an entry that does not
\* end in :* (a global *, an action wildcard *:a) grants only itself, and
\* the empty list grants nothing.
C2_HasPermissionExact ==
    (permIn.fn = "HasPermission" /\ permOut # <<>>) =>
        LET perms == permIn.userPerms
            r == permIn.requiredPerm
        IN  /\ permOut[1] <=>
                \E i \in 1..Len(perms) : perms[i] = r \/ WildcardGrants(perms[i], r)
            /\ perms = <<>> => permOut[1] = FALSE
            /\ (Len(perms) = 1 /\ perms[1] \in {<<"*">>, <<"*", ":", "a">>})
                   => (permOut[1] <=> r = perms[1])

\* C2 witness: a two-entry list whose first entry is a global * and whose
\* second entry a:* has been asked for a:a and granted it.
C2_Witness ==
    /\ permIn.fn = "HasPermission"
    /\ permIn.userPerms = <<<<"*">>, <<"a", ":", "*">>>>
    /\ permIn.requiredPerm = <<"a", ":", "a">>
    /\ permOut = <<TRUE>>

(***************************************************************************)
(* Claims about the request pipeline and the token codec                   *)
(***************************************************************************)
\* the MAC of the token's own header and payload under the process secret
GenuineSignature(t) ==
    [alg |-> t.header.alg, key |-> jwtSecret, header |-> t.header, payload |-> t.payload]

\* the request in flight carries the header Bearer <token string>
CarriesToken == req.header.text = <<"Bearer", " ", "$T">>

\* the request in flight came in on a route mounted behind AuthMiddleware
BehindAuth == req.route \in {"auth", "auth+authz"}

\* the token string as AuthMiddleware hands it to ValidateToken
AsTokenString(t) == [text |-> <<"$T">>, jwt |-> t]

\* C3: on a route behind AuthMiddleware the handler runs only if the header
\* is Bearer <token> and ValidateToken accepted the token when the
\* middleware ran; otherwise (no header, another shape, a signature that is
\* not genuine, an algorithm outside the accepted ones, an expired token)
\* the response is 401, the handler has not run and Authorize was not
\* entered.
C3_HandlerOnlyIfAuthenticated ==
    (BehindAuth /\ req.pc # "idle") =>
        LET tok == req.header.jwt
            accepted == /\ CarriesToken
                        /\ ValidateToken(AsTokenString(tok), req.at).err = ""
            rejected == req.code = 401 /\ req.pc = "done" /\ ~req.handler /\ ~req.entered
        IN  /\ req.handler => accepted
            /\ ~accepted => rejected
            /\ req.header.text = <<>> => rejected
            /\ ~CarriesToken => rejected
            /\ (CarriesToken /\ tok.sig # GenuineSignature(tok)) => rejected
            /\ (CarriesToken /\ tok.header.alg \notin HMACFamily) => rejected
            /\ (CarriesToken /\ req.at >= tok.payload.exp * TicksPerSecond) => rejected

\* C3 witness: a request with a genuine token of the wallet that had expired
\* when the middleware ran has been answered 401 without the handler.
C3_Witness ==
    /\ BehindAuth
    /\ CarriesToken
    /\ \E w \in wallet : req.header.jwt = w.tok
    /\ req.at >= req.header.jwt.payload.exp * TicksPerSecond
    /\ req.code = 401
    /\ ~req.handler

\* C4: when the read of the role store fails, GetPolicyMap returns the
\* error with a nil map, and Authorize answers 500 (not 403) without
\* invoking the wrapped handler.
C4_ResolverFailureNeverGrants ==
    (req.pc = "done" /\ req.listFailed) =>
        /\ req.policyNil
        /\ req.policy = NoPolicy
        /\ req.code = 500
        /\ req.code # 403
        /\ ~req.handler

\* C4 witness: the read failed for a manager asking for order:read, which
\* the stored policy would have granted.
C4_Witness ==
    /\ req.pc = "done"
    /\ req.listFailed
    /\ req.u.Role = "manager"
    /\ req.perm = PermOrderRead
    /\ req.code = 500

\* the decision the loaded policy map stands for, read off the map itself
PolicyGrants(policy, role, perm) ==
    /\ role \in DOMAIN policy
    /\ \E i \in 1..Len(policy[role]) :
          policy[role][i] = perm \/ WildcardGrants(policy[role][i], perm)

\* C5: once the user record and the policy map are loaded, a false decision
\* is answered 403 with a message naming the required permission and the
\* handler does not run; a true decision runs the handler with the request
\* as Authorize received it.  The handler runs iff the decision is true.
C5_HandlerIffDecision ==
    (req.pc = "done" /\ req.entered /\ "GetPolicyMap" \in {req.calls[i] : i \in 1..Len(req.calls)}
        /\ ~req.listFailed) =>
        LET decision == PolicyGrants(req.policy, req.u.Role, req.perm)
        IN  /\ req.handler <=> decision
            /\ decision => (req.code = 200 /\ req.handlerCtx = req.ctx)
            /\ ~decision => /\ req.code = 403
                            /\ req.msg = <<"Access Denied: Missing ", req.perm>>

\* C5 witness: a clerk asking for order:delete has been answered 403.
C5_Witness ==
    /\ req.pc = "done"
    /\ req.entered
    /\ req.u.Role = "clerk"
    /\ req.perm = PermOrderDelete
    /\ req.code = 403
    /\ req.msg = <<"Access Denied: Missing ", PermOrderDelete>>

\* C6: Authorize answers 401 without the handler whenever it cannot
\* establish a stored user: with no user id in the context it consults
\* neither store, and when the user store returns no record for the id it
\* does not consult the policy resolver.
C6_NoUserNoAuthorization ==
    (req.entered /\ ("userID" \notin DOMAIN req.ctx \/ req.userFailed)) =>
        /\ req.pc = "done"
        /\ req.code = 401
        /\ ~req.handler
        /\ "userID" \notin DOMAIN req.ctx => req.calls = <<>>
        /\ req.userFailed => req.calls = <<"GetUser">>

\* C6 witness: a request with an accepted token whose user has been deleted
\* since was answered 401 after the user lookup alone.
C6_Witness ==
    /\ req.entered
    /\ req.route = "auth+authz"
    /\ req.userFailed
    /\ req.ctx["userID"] \notin DOMAIN users
    /\ req.code = 401
    /\ req.calls = <<"GetUser">>

\* C7 (round trip): the token a successful Login has just returned is
\* accepted by ValidateToken at once, and every issued token is accepted
\* while its expiry is ahead; the claims returned carry the id and the role
\* of the user GenerateToken was called with.
C7_TokenRoundTrip ==
    /\ (req.route = "login" /\ req.msg = <<"">>) =>
          \E w \in wallet :
              /\ w.tok = req.token
              /\ ValidateToken(AsTokenString(req.token), now).err = ""
    /\ \A w \in wallet :
          now < w.tok.payload.exp * TicksPerSecond =>
              LET v == ValidateToken(AsTokenString(w.tok), now)
              IN  /\ v.err = ""
                  /\ v.claims.UserID = w.u.Id
                  /\ v.claims.Role = w.u.Role

\* C7 witness: Login has just returned a token for bob, the manager.
C7_Witness ==
    /\ req.route = "login"
    /\ req.msg = <<"">>
    /\ \E w \in wallet : w.tok = req.token /\ w.u.Id = 2 /\ w.u.Role = "manager"

\* ValidateToken rejects issued token w as expired at time t
RejectedExpired(w, t) ==
    ValidateToken(AsTokenString(w.tok), t).err = "token is expired"

\* C8 (expiry): an issued token is accepted only while its expiry timestamp
\* is ahead of the clock, it is rejected as expired from TTL + 1 second
\* after its issued-at timestamp on, and once rejected as expired it is
\* rejected as expired at every later time.
C8_TokenExpiry ==
    /\ [](\A w \in wallet :
            /\ ValidateToken(AsTokenString(w.tok), now).err = ""
                  => now < w.tok.payload.exp * TicksPerSecond
            /\ now >= (w.tok.payload.iat + tokenTTL + 1) * TicksPerSecond
                  => RejectedExpired(w, now))
    /\ [][\A w \in wallet : RejectedExpired(w, now) => RejectedExpired(w, now')]_vars

\* C8 witness: the clock stands at TTL + 1 second after the issued-at
\* timestamp of an issued token, which is rejected as expired.
C8_Witness ==
    \E w \in wallet :
        /\ now = (w.tok.payload.iat + tokenTTL + 1) * TicksPerSecond
        /\ RejectedExpired(w, now)

\* C9 as stated (algorithm pinning to HS256): every token string whose
\* header declares an algorithm other than HS256 is rejected.
C9_OnlyHS256 ==
    (BehindAuth /\ req.pc # "idle" /\ CarriesToken
        /\ req.header.jwt.header.alg # "HS256") =>
        /\ ValidateToken(AsTokenString(req.header.jwt), req.at).err # ""
        /\ req.code = 401

\* C9 as amended (pinning to the HMAC family): a token string whose header
\* declares an algorithm outside HS256, HS384, HS512 is rejected, by the key
\* function's unexpected-signing-method error when the algorithm is a
\* registered one; one that declares HS384 or HS512 and carries the genuine
\* signature for it under the process secret is accepted while unexpired.
C9_HMACFamilyOnly ==
    (BehindAuth /\ req.pc # "idle" /\ CarriesToken) =>
        LET tok == req.header.jwt
            v == ValidateToken(AsTokenString(tok), req.at)
        IN  /\ tok.header.alg \notin HMACFamily => (v.err # "" /\ req.code = 401)
            /\ (tok.header.alg \in RegisteredAlgs \ HMACFamily)
                  => v.err = "unexpected signing method"
            /\ (/\ tok.header.alg \in HMACFamily \ {"HS256"}
                /\ tok.sig = GenuineSignature(tok)
                /\ req.at < tok.payload.exp * TicksPerSecond) => v.err = ""

\* C9 witness: a request whose token declares RS256 has been answered 401.
C9_Witness ==
    /\ BehindAuth
    /\ CarriesToken
    /\ req.header.jwt.header.alg = "RS256"
    /\ req.validated
    /\ req.code = 401

LoginStep == req.pc = "idle" /\ req'.route = "login"

\* the stored user with this username who is active and whose stored hash
\* is the bcrypt hash of this password under the hash's own salt
Verifies(store, id, username, password) ==
    /\ store[id].Username = username
    /\ store[id].Active
    /\ store[id].Hash = [prefix |-> BcryptPrefix, salt |-> store[id].Hash.salt,
                         digest |-> <<store[id].Hash.salt, password>>]

\* C11: a call of Login returns a token only when the username is stored,
\* the user is active and the password verifies against the stored hash,
\* and the token then carries that user's id and role; in every other case
\* it returns an error and the empty token.  No other step issues a token.
C11_LoginOnlyIssuer ==
    [][/\ LoginStep =>
            LET b == req'.body
                ok == req'.msg = <<"">>
                c == UnmarshalClaims(req'.token.payload)
            IN  /\ ok => \E id \in DOMAIN users :
                            /\ Verifies(users, id, b.Username, b.Password)
                            /\ c.UserID = id
                            /\ c.Role = users[id].Role
                            /\ wallet' = wallet \cup {[tok |-> req'.token, u |-> users[id]]}
                /\ ~ok => (req'.token = NoToken /\ wallet' = wallet)
                /\ (\A id \in DOMAIN users :
                        ~Verifies(users, id, b.Username, b.Password)) => ~ok
       /\ wallet' # wallet => (LoginStep /\ req'.msg = <<"">>)]_vars

\* C11 witness: Login has returned a token to the user POST /users created,
\* and the token carries the id the store gave that user and the role staff.
C11_Witness ==
    /\ req.route = "login"
    /\ req.msg = <<"">>
    /\ req.body.Username = "mallory"
    /\ req.token.payload.user_id = 3
    /\ req.token.payload.role = "staff"
    /\ \E w \in wallet : w.tok = req.token

\* the calls of Login a client can make
LoginAttempts == {"alice", "bob", "mallory"} \X {Secret1, Hunter22} \X BOOLEAN

\* C12 (a failed login does not say which factor failed): the error a failed
\* Login returned is the error of every other Login that fails, whatever
\* the reason: an unknown username, a wrong password, another check on the
\* account.
C12_FailureIndistinguishable ==
    (req.route = "login" /\ req.msg # <<"">>) =>
        \A a \in LoginAttempts :
            Login(users, a[1], a[2], a[3], now, now).err \in {"", req.msg[1]}

(***************************************************************************)
(* Claims about password hashing                                           *)
(***************************************************************************)
\* the call of the user service the credential specification has made
ServiceCall == cred.call[1]

\* the call of the user service left the account store as it was
NothingStored == users = InitUsers /\ userSeq = 2

Made == {i \in 1..Len(cred.made) : cred.made[i].err = ""}

\* C19 (credential round trip): CheckPassword accepts a password against a
\* hash SetPassword made exactly when the hash was made from that password,
\* so pw verifies against the hash of pw and not against the hash of pw
\* with an x appended; two hashes are different strings even when made from
\* the same password, and each verifies it; against a stored string that is
\* no bcrypt hash CheckPassword answers false.
C19_CredentialRoundTrip ==
    /\ \A i, j \in Made : i # j => cred.made[i].hash # cred.made[j].hash
    /\ cred.check # <<>> =>
          LET c == cred.check[1]
          IN  /\ \A i \in Made :
                    c.hash = cred.made[i].hash => (c.ok <=> c.pw = cred.made[i].pw)
              /\ c.hash \in MalformedHashes(cred.pw) => c.ok = FALSE

\* C19 witness: SetPassword has hashed the same password twice and the
\* password with an x appended once; the last CheckPassword was of the
\* password against the second hash, and accepted it.
C19_Witness ==
    /\ Len(cred.made) = 3
    /\ Len(cred.pw) = 6
    /\ cred.made[1].pw = cred.pw
    /\ cred.made[2].pw = cred.pw
    /\ cred.made[3].pw = Append(cred.pw, "x")
    /\ cred.made[1].hash # cred.made[2].hash
    /\ cred.check = <<[hash |-> cred.made[2].hash, pw |-> cred.pw, ok |-> TRUE]>>

(***************************************************************************)
(* Claims about the response codes                                         *)
(***************************************************************************)
\* the request in flight came in on a route of the user handler that takes
\* a password, and the handler has decoded its body
GavePassword ==
    /\ req.route \in {"POST /users", "PATCH /users/{id}/password"}
    /\ req.handler
    /\ req.msg \notin {<<"Invalid ID">>, <<"Invalid JSON body">>}

\* C14 (the four error kinds have distinct response codes): a request that
\* is not authenticated is answered 401, a policy denial 403, a failed read
\* of the role store with a 500-class code, and a registration or password
\* change with a password below the minimum length with a 400-class code.
C14_DistinctErrorCodes ==
    req.pc = "done" =>
        /\ (req.route \notin {"login", "authz"} /\ ~req.handler /\ ~req.entered)
              => req.code = 401
        /\ (req.entered /\ ("userID" \notin DOMAIN req.ctx \/ req.userFailed))
              => req.code = 401
        /\ (req.entered /\ req.listFailed) => req.code \in 500..599
        /\ (req.entered /\ ~req.userFailed /\ ~req.listFailed /\ ~req.handler
               /\ "userID" \in DOMAIN req.ctx) => req.code = 403
        /\ (GavePassword /\ Len(req.body.Password) < 6) => req.code \in 400..499

(***************************************************************************)
(* Claims about the order of the stages                                    *)
(***************************************************************************)
\* C15 (end to end): a request on a route behind AuthMiddleware and
\* Authorize that presents, unexpired, the token Login issued to a clerk
\* enters Authorize only after the token was validated, with the token's
\* identity in its context; with the clerk still stored and the policy
\* {clerk: [order:create, order:read]} read from the role store, it is
\* answered 403 when the route requires order:delete and reaches the
\* handler when the route requires order:read.
C15_ClerkEndToEnd ==
    (/\ req.route = "auth+authz"
     /\ CarriesToken
     /\ \E w \in wallet : w.tok = req.header.jwt /\ w.u.Role = "clerk"
     /\ req.at < req.header.jwt.payload.exp * TicksPerSecond) =>
        /\ req.validated
        /\ req.ctx = ("userID" :> req.header.jwt.payload.user_id) @@ ("userRole" :> "clerk")
        /\ (req.pc = "done" /\ ~req.userFailed /\ ~req.listFailed) =>
              /\ req.entered
              /\ req.perm = PermOrderDelete => (req.code = 403 /\ ~req.handler)
              /\ req.perm = PermOrderRead => (req.code = 200 /\ req.handler)
              /\ "clerk" \in DOMAIN req.policy
              /\ req.policy["clerk"] = <<PermOrderCreate, PermOrderRead>>

\* C15 witness: alice, the clerk, has logged in and her request on a route
\* requiring order:read has reached the handler.
C15_Witness ==
    /\ req.route = "auth+authz"
    /\ CarriesToken
    /\ \E w \in wallet : w.tok = req.header.jwt /\ w.u.Username = "alice"
    /\ req.perm = PermOrderRead
    /\ req.calls = <<"GetUser", "GetPolicyMap">>
    /\ req.handler

\* the header text is two fields around one space, the first being Bearer
WellShaped(text) ==
    \E i \in 1..Len(text) :
        /\ text[i] = " "
        /\ \A j \in 1..Len(text) : j # i => text[j] # " "
        /\ SubSeq(text, 1, i - 1) = <<"Bearer">>

\* C17 (shape before verification): a request behind AuthMiddleware whose
\* Authorization header is missing or is not exactly two space-separated
\* fields with Bearer first is answered 401 without ValidateToken having
\* been called and without the handler.
C17_ShapeBeforeValidation ==
    (BehindAuth /\ req.pc # "idle" /\ ~WellShaped(req.header.text)) =>
        /\ req.pc = "done"
        /\ req.code = 401
        /\ ~req.validated
        /\ ~req.handler

\* C17 witness: a request whose header is Basic followed by an issued,
\* unexpired token has been answered 401 without a call of ValidateToken.
C17_Witness ==
    /\ BehindAuth
    /\ req.header.text = <<"Basic", " ", "$T">>
    /\ \E w \in wallet : w.tok = req.header.jwt
    /\ ValidateToken(AsTokenString(req.header.jwt), req.at).err = ""
    /\ req.code = 401
    /\ ~req.validated

(***************************************************************************)
(* Claims about the identity in the request context                        *)
(***************************************************************************)
\* the identity the claims of token t stand for, as a context holds it
IdentityOf(t) == ("userID" :> t.payload.user_id) @@ ("userRole" :> t.payload.role)

\* request r has been passed on by AuthMiddleware
PassedOn(r) == r.pc = "handler" \/ (r.pc = "done" /\ r.code = 200)

\* C16 (identity in context): a request reaches a handler behind
\* AuthMiddleware only with a token ValidateToken accepts, and the user id
\* and role its handler finds in the context are those of that token's
\* claims, whatever the rest of the request says; requests with the same
\* token find the same identity; a request that AuthMiddleware has not
\* passed on has no identity in its context, whatever the requests in
\* flight beside it carry.
C16_ContextIsTokenIdentity ==
    \A i \in DOMAIN reqs :
        LET r == reqs[i]
        IN  /\ PassedOn(r) =>
                  /\ r.header.text = <<"Bearer", " ", "$T">>
                  /\ ValidateToken(AsTokenString(r.header.jwt), now).err = ""
                  /\ r.ctx = IdentityOf(r.header.jwt)
                  /\ r.pc = "done" => r.handlerCtx = IdentityOf(r.header.jwt)
            /\ ~PassedOn(r) => (r.ctx = NoCtx /\ r.handlerCtx = NoCtx)
            /\ \A j \in DOMAIN reqs :
                  (/\ r.pc = "done" /\ r.code = 200
                   /\ reqs[j].pc = "done" /\ reqs[j].code = 200
                   /\ r.header.jwt = reqs[j].header.jwt)
                      => r.handlerCtx = reqs[j].handlerCtx

\* C16 witness: the handler of a request with alice's token, whose other
\* data claim user 2 as manager, has found alice the clerk in its context,
\* while a request with bob's token is with its handler.
C16_Witness ==
    \E i, j \in DOMAIN reqs :
        /\ reqs[i].pc = "done"
        /\ reqs[i].data = [xUserID |-> 2, role |-> "manager"]
        /\ reqs[i].handlerCtx = ("userID" :> 1) @@ ("userRole" :> "clerk")
        /\ reqs[j].pc = "handler"
        /\ reqs[j].ctx = ("userID" :> 2) @@ ("userRole" :> "manager")

(***************************************************************************)
(* Claims about the lifetime of tokens                                     *)
(***************************************************************************)
\* the step serves a request that presents a held token
PresentStep == req.pc = "idle" /\ req'.route = "auth"

\* C18 (stateless, not revocable tokens): a step that issues or verifies a
\* token leaves the user store and the role store as they were; whether an
\* issued token is accepted is decided by the token and the clock alone, so
\* a request that presents it reaches the handler exactly while the token's
\* expiry is ahead, also after the user it names has been deleted or
\* deactivated or has another password.
C18_StatelessTokens ==
    /\ [][(LoginStep \/ PresentStep) => UNCHANGED <<users, roles, storeVars>>]_vars
    /\ [](\A w \in wallet :
            ValidateToken(AsTokenString(w.tok), now).err = ""
                <=> now < w.tok.payload.exp * TicksPerSecond)
    /\ []((req.route = "auth" /\ req.pc = "done") =>
            (req.handler <=> req.at < req.header.jwt.payload.exp * TicksPerSecond))

\* C18 witness: a request presenting alice's token has reached the handler
\* while the stored alice is deactivated and has another password than the
\* one she logged in with.
C18_Witness ==
    /\ req.route = "auth"
    /\ req.pc = "done"
    /\ req.handler
    /\ \E w \in wallet :
          /\ w.tok = req.header.jwt
          /\ w.u.Id = 1
          /\ 1 \in DOMAIN users
          /\ ~users[1].Active
          /\ users[1].Hash # w.u.Hash

(***************************************************************************)
(* Claims about transactions                                               *)
(***************************************************************************)
\* how often the deferred function of the run called this method
Calls(method) == Cardinality({i \in 1..Len(tx.events) : tx.events[i] = method})

\* C20: a run of TxManager.Run whose transaction has begun ends with
\* exactly one call of Commit or Rollback: Commit, and no Rollback, exactly
\* when the function returned nil; Rollback, and no Commit, when it
\* returned an error, which Run returns, or panicked, and then the panic is
\* raised again after the Rollback; a failed Commit is returned as an
\* error.  Neither is called before the function has ended.
C20_CommitXorRollback ==
    /\ (tx.pc \in {"returned", "panicked"} /\ tx.began) =>
          /\ Calls("Commit") + Calls("Rollback") = 1
          /\ Calls("Commit") = 1 <=> tx.outcome = "nil"
          /\ Calls("Rollback") = 1 <=> tx.outcome \in {"error", "panic"}
          /\ tx.outcome = "panic" <=> tx.pc = "panicked"
          /\ tx.outcome = "panic" => tx.events = <<"Rollback", "panic">>
          /\ tx.outcome = "error" => tx.err = "fn failed"
          /\ tx.commitFailed => tx.err = "failed to commit transaction"
          /\ (tx.outcome = "nil" /\ ~tx.commitFailed) => tx.err = ""
    /\ (tx.pc \in {"fn", "defer"} \/ ~tx.began) => tx.events = <<>>

\* C20 witness: the function has written two rows and panicked; the run has
\* rolled back and then raised the panic again, and the database holds
\* none of the rows.
C20_Witness ==
    /\ tx.pc = "panicked"
    /\ tx.outcome = "panic"
    /\ tx.events = <<"Rollback", "panic">>
    /\ tx.runs = 1
    /\ tx.durable = {}

(***************************************************************************)
(* Claims about authorization while the stores change                      *)
(***************************************************************************)
\* the policy the role store stands for: each stored slug with the
\* permission list stored for it
StoredPolicy(rows) ==
    [slug \in {rows[i].Slug : i \in 1..Len(rows)} |->
        rows[CHOOSE i \in 1..Len(rows) : rows[i].Slug = slug].Permissions]

\* the step in which Authorize reads the user store and goes on
ReadsUser == req.pc = "authz" /\ req'.pc = "policy"

\* the step in which Authorize reads the role store and decides
Decides == req.pc = "policy" /\ req'.pc = "done" /\ ~req'.listFailed

\* C21: Authorize decides on the role stored in the user's record when it
\* reads the record, not on the role of the token's claims: a check that
\* begins after the role was changed is decided by the new role.
C21_DecidedByStoredRole ==
    [][/\ ReadsUser => req'.u.Role = users[req.ctx["userID"]].Role
       /\ Decides => (req'.handler <=> PolicyGrants(StoredPolicy(roles), req.u.Role, req.perm))
       /\ Decides => req'.u = req.u]_vars

\* C21 witness: alice's token says clerk, her role has been changed to
\* manager since, and her request for order:delete has reached the handler.
C21_Witness ==
    /\ req.pc = "done"
    /\ req.handler
    /\ req.header.jwt.payload.role = "clerk"
    /\ req.ctx["userRole"] = "clerk"
    /\ req.u.Role = "manager"
    /\ req.perm = PermOrderDelete

\* C22: every check builds its policy map from the role store as it is when
\* the check reads it: the map holds exactly the stored slugs, each with
\* the permission list stored for it, so a permission added or removed
\* before the read decides the check.
C22_PolicyRebuiltPerCheck ==
    [][Decides =>
        /\ DOMAIN req'.policy = {roles[i].Slug : i \in 1..Len(roles)}
        /\ \A i \in 1..Len(roles) : req'.policy[roles[i].Slug] = roles[i].Permissions
        /\ req'.code = 200 => PolicyGrants(StoredPolicy(roles), req.u.Role, req.perm)
        /\ req'.code = 403 => ~PolicyGrants(StoredPolicy(roles), req.u.Role, req.perm)
        /\ req'.code \in {200, 403}]_vars

\* C22 witness: order:delete has been added to the clerk role and order:read
\* removed from it, and a clerk's request for order:delete has reached the
\* handler under the map built from the edited store.
C22_Witness ==
    /\ req.pc = "done"
    /\ req.handler
    /\ req.u.Role = "clerk"
    /\ req.perm = PermOrderDelete
    /\ req.policy = StoredPolicy(roles)
    /\ req.policy["clerk"] = <<PermOrderCreate, PermOrderDelete>>

\* C25: the handler wrapped by Authorize is never reached when the user
\* record the check read is not active.
C25_InactiveNeverAuthorized ==
    (req.route = "auth+authz" /\ req.handler) => req.u.Active

\* C25, amended: Authorize does not consult the active flag.  For a user
\* whose stored record is not active the check is decided by the stored
\* role alone: the handler is reached exactly when the role holds the
\* required permission under the stored policy.
C25_ActiveFlagNotConsulted ==
    [][(Decides /\ ~req.u.Active) =>
          /\ req'.handler <=> PolicyGrants(StoredPolicy(roles), req.u.Role, req.perm)
          /\ req'.handler => req'.code = 200]_vars

\* C25 witness: alice was deactivated after her login, and her request for
\* order:read has reached the handler.
C25_Witness ==
    /\ req.route = "auth+authz"
    /\ req.pc = "done"
    /\ req.handler
    /\ req.ctx["userID"] = 1
    /\ ~req.u.Active
    /\ ~users[1].Active
    /\ req.perm = PermOrderRead

\* C26: whenever the handler wrapped by Authorize is invoked, at some moment
\* between the entry of Authorize and its decision the user's stored role
\* held the required permission under the role policy stored at that same
\* moment.
C26_GrantJustifiedBySingleState ==
    (req.route = "auth+authz" /\ req.handler) => req.justified

(***************************************************************************)
(* Claims about concurrent writes to the stores                            *)
(***************************************************************************)
\* the step in which a call of UpdateUser writes and returns
UpdateUserReturns ==
    \E i \in 1..Len(svc) : svc[i].op = "UpdateUser" /\ ~svc[i].done /\ svc'[i].done

\* C27: UpdateUser changes no user's password hash and no user's active
\* flag: what a completed ChangePassword or ToggleActive stored is still
\* stored when UpdateUser has written.
C27_UpdateUserKeepsHashAndActive ==
    [][UpdateUserReturns =>
          \A id \in DOMAIN users :
              /\ users'[id].Hash = users[id].Hash
              /\ users'[id].Active = users[id].Active]_vars

\* the stored permission list of the role reflects the returned edit
Reflected(call) ==
    IF call.op = "AddPermission" THEN Contains(roles[call.id].Permissions, call.perm)
    ELSE ~Contains(roles[call.id].Permissions, call.perm)

\* C28: when two edits of the permissions of one role, AddPermission(id, p)
\* with AddPermission(id, q) or with RemovePermission(id, q), p # q, have
\* both returned success, the stored list reflects both; no stored list
\* holds a permission twice.
C28_NoLostPermissionEdit ==
    /\ \A i, j \in 1..Len(svc) :
          (/\ i # j
           /\ \A k \in 1..Len(svc) : svc[k].done
           /\ svc[i].err = "" /\ svc[j].err = ""
           /\ svc[i].op = "AddPermission"
           /\ svc[j].op \in {"AddPermission", "RemovePermission"}
           /\ svc[i].id = svc[j].id
           /\ svc[i].perm # svc[j].perm) =>
              (Reflected(svc[i]) /\ Reflected(svc[j]))
    /\ \A r \in 1..Len(roles) : \A m, n \in 1..Len(roles[r].Permissions) :
          roles[r].Permissions[m] = roles[r].Permissions[n] => m = n

(***************************************************************************)
(* Claims about orders and inventory                                       *)
(***************************************************************************)
\* the last call of the order service
LastCall == svc[1]

NegativeAmountCall ==
    /\ svc' # NoSvc
    /\ \/ /\ svc'[1].op = "CreateOrder"
          /\ (svc'[1].order.Paid < 0 \/ svc'[1].order.Total < 0)
       \/ /\ svc'[1].op = "ProcessPayment"
          /\ svc'[1].amount < 0

\* C29: every stored order has change = paid - total, whatever change the
\* client sent with it; a call with a negative paid or a negative total
\* returns an error and leaves the orders table as it was.
C29_StoredChangeIsPaidMinusTotal ==
    /\ [](\A i \in 1..Len(orders) : orders[i].Change = orders[i].Paid - orders[i].Total)
    /\ [][NegativeAmountCall => (svc'[1].err # "" /\ orders' = orders)]_vars

\* the step is a call of AdjustStock with delta 0
AdjustsByZero == svc' # NoSvc /\ svc'[1].op = "AdjustStock" /\ svc'[1].delta = 0

C23_ExpiryIsIssuedAtPlusTTL ==
    \A w \in wallet :
        /\ w.tok.payload.exp - w.tok.payload.iat = tokenTTL
        /\ w.tok.payload.iss = Issuer

====
